---- MODULE Spec2Model ----
(***************************************************************************)
(* A model of the network provisioning code of src/vpc/__init__.py and of  *)
(* the tagging loops of src/ec2/__init__.py: the subnet planning           *)
(* arithmetic of create_subnets, and the sequential program create_vpc /   *)
(* attach_internet_gateway / create_route_table / create_subnets /         *)
(* create_subnet / create_ec2_instance run against a cloud provider whose  *)
(* answers are chosen nondeterministically.                                *)
(***************************************************************************)
EXTENDS Integers, Sequences, FiniteSets, TLC

(***************************************************************************)
(* Python integers.  Python's int has no width, and the addresses of the   *)
(* 172.16/12 and 192.168/16 ranges exceed 2^31, so an integer the code     *)
(* applies |, <<, >> and & to is modelled as the set of the positions of   *)
(* its 1 bits.                                                             *)
(***************************************************************************)
RECURSIVE Pow2(_)
Pow2(n) ==
    IF n <= 0 THEN 1 ELSE 2 * Pow2(n - 1)

\* The positions of the 1 bits of n, counted from position b.
RECURSIVE BitsFrom(_, _)
BitsFrom(n, b) ==
    IF n <= 0 THEN {}
    ELSE (IF n % 2 = 1 THEN {b} ELSE {}) \cup BitsFrom(n \div 2, b + 1)

BitsOf(n) ==
    BitsFrom(n, 0)

RECURSIVE ValueOf(_)
ValueOf(S) ==
    IF S = {} THEN 0
    ELSE LET b == CHOOSE x \in S : TRUE IN Pow2(b) + ValueOf(S \ {b})

ShiftLeft(S, k) ==
    {b + k : b \in S}

ShiftRight(S, k) ==
    {b - k : b \in {x \in S : x >= k}}

BitOr(S, T) ==
    S \cup T

BitAnd(S, T) ==
    S \cap T

(***************************************************************************)
(* A CIDR block in its text form "a.b.c.d/n" is the record of its four     *)
(* octets and its netmask.                                                 *)
(***************************************************************************)
Cidr(a, b, c, d, n) ==
    [octets |-> <<a, b, c, d>>, netmask |-> n]

\* get_cidr_block_components: int(ipaddress.IPv4Address(network_ip)), int(netmask)
get_cidr_block_components(cidr_block) ==
    [network_ip |-> BitOr(BitOr(ShiftLeft(BitsOf(cidr_block.octets[1]), 24),
                                ShiftLeft(BitsOf(cidr_block.octets[2]), 16)),
                          BitOr(ShiftLeft(BitsOf(cidr_block.octets[3]), 8),
                                BitsOf(cidr_block.octets[4]))),
     netmask |-> cidr_block.netmask]

\* len(bin(n)): Python's bin(n) is "0b" followed by the binary digits of n
RECURSIVE BinDigits(_)
BinDigits(n) ==
    IF n < 2 THEN 1 ELSE 1 + BinDigits(n \div 2)

\* subnet_netmask = netmask+len(bin(num_subnets+len(zones)*count))-3
minimum_netmask(netmask, num_subnets, nzones, count) ==
    LET LenBin(n) == 2 + BinDigits(n)
    IN  netmask + LenBin(num_subnets + nzones * count) - 3

\* if balanced: subnet_netmask+(28-subnet_netmask)//2 if subnet_netmask < 28
balance(subnet_netmask) ==
    IF subnet_netmask < 28
    THEN subnet_netmask + ((28 - subnet_netmask) \div 2)
    ELSE subnet_netmask

\* Alignment to the nearest byte at or above: a multiple of 8 stays.
byte_align_nearest(subnet_netmask) ==
    IF subnet_netmask < 24
    THEN subnet_netmask + ((8 - (subnet_netmask % 8)) % 8)
    ELSE subnet_netmask

\* if byte_aligned: subnet_netmask+8-(subnet_netmask%8) if subnet_netmask < 24
byte_align(subnet_netmask) ==
    IF subnet_netmask < 24
    THEN subnet_netmask + 8 - (subnet_netmask % 8)
    ELSE subnet_netmask

\* The two policies in the other order: aligned first, then balanced.
align_then_balance(netmask, num_subnets, nzones, count, balanced, byte_aligned) ==
    LET m0 == minimum_netmask(netmask, num_subnets, nzones, count)
        m1 == IF byte_aligned THEN byte_align(m0) ELSE m0
    IN  IF balanced THEN balance(m1) ELSE m1

\* The netmask of the subnets of one create_subnets invocation.
subnet_netmask(netmask, num_subnets, nzones, count, balanced, byte_aligned) ==
    LET m0 == minimum_netmask(netmask, num_subnets, nzones, count)
        m1 == IF balanced THEN balance(m0) ELSE m0
    IN  IF byte_aligned THEN byte_align(m1) ELSE m1

\* The index put into the address without the shift.
unshifted_network_ip(network_ip, num_subnets, i, snm) ==
    BitOr(network_ip, BitsOf(num_subnets + i))

\* subnet_network_ip = (network_ip | (num_subnets+i << 32-subnet_netmask));
\* Python raises ValueError for a negative shift count, so the operator is
\* applied only where 32-subnet_netmask >= 0.
subnet_network_ip(network_ip, num_subnets, i, snm) ==
    BitOr(network_ip, ShiftLeft(BitsOf(num_subnets + i), 32 - snm))

\* The text of the block: the first octet is not masked (>> 24 only).
subnet_cidr_block(ip, snm) ==
    Cidr(ValueOf(ShiftRight(ip, 24)),
         ValueOf(BitAnd(ShiftRight(ip, 16), BitsOf(255))),
         ValueOf(BitAnd(ShiftRight(ip, 8), BitsOf(255))),
         ValueOf(BitAnd(ip, BitsOf(255))),
         snm)

\* 0xffffffff
AllOnes ==
    0..31

BitXor(S, T) ==
    (S \ T) \cup (T \ S)

\* get_network_capacity: (0xffffffff ^ (0xffffffff << 32-int(netmask) &
\* 0xffffffff))-4; << binds tighter than &, and & tighter than ^.  Python
\* raises ValueError for netmask > 32, and for netmask 0 the result 2^32-5 is
\* beyond the integers of TLC, so the operator is applied for 1..32.
get_network_capacity(netmask) ==
    ValueOf(BitXor(AllOnes, BitAnd(ShiftLeft(AllOnes, 32 - netmask), AllOnes))) - 4

(***************************************************************************)
(* Subnet names.  A Python string is the sequence of its characters.       *)
(***************************************************************************)
Digits ==
    <<"0", "1", "2", "3", "4", "5", "6", "7", "8", "9">>

UpperCase ==
    <<"A", "B", "C", "D", "E", "F", "G", "H", "I", "J", "K", "L", "M",
      "N", "O", "P", "Q", "R", "S", "T", "U", "V", "W", "X", "Y", "Z">>

LowerCase ==
    <<"a", "b", "c", "d", "e", "f", "g", "h", "i", "j", "k", "l", "m",
      "n", "o", "p", "q", "r", "s", "t", "u", "v", "w", "x", "y", "z">>

\* str(n) for n >= 0
RECURSIVE str(_)
str(n) ==
    IF n < 10 THEN <<Digits[n + 1]>> ELSE Append(str(n \div 10), Digits[(n % 10) + 1])

\* s.zfill(width) of a string without sign
RECURSIVE zfill(_, _)
zfill(s, width) ==
    IF Len(s) >= width THEN s ELSE zfill(<<"0">> \o s, width)

\* s.lower()
lower(s) ==
    [k \in 1..Len(s) |->
        IF \E u \in 1..Len(UpperCase) : UpperCase[u] = s[k]
        THEN LowerCase[CHOOSE u \in 1..Len(UpperCase) : UpperCase[u] = s[k]]
        ELSE s[k]]

\* sep.join(parts)
RECURSIVE join(_, _)
join(sep, parts) ==
    IF parts = <<>> THEN <<>>
    ELSE IF Len(parts) = 1 THEN parts[1]
    ELSE parts[1] \o sep \o join(sep, Tail(parts))

\* s.replace(old, new), old not empty: every occurrence, from the left,
\* without overlap
RECURSIVE replace(_, _, _)
replace(s, old, new) ==
    IF Len(s) < Len(old) THEN s
    ELSE IF SubSeq(s, 1, Len(old)) = old
    THEN new \o replace(SubSeq(s, Len(old) + 1, Len(s)), old, new)
    ELSE <<Head(s)>> \o replace(Tail(s), old, new)

\* The words of the names.
SubnetWord ==
    <<"s", "u", "b", "n", "e", "t">>

PublicWord ==
    <<"p", "u", "b", "l", "i", "c">>

PrivateWord ==
    <<"p", "r", "i", "v", "a", "t", "e">>

ProdWord ==
    <<"p", "r", "o", "d">>

StagingWord ==
    <<"s", "t", "a", "g", "i", "n", "g">>

\* while len(subnet_name) > 37
MaxNameLength ==
    37

\* The suffix numbered by the place in the whole list instead of the place
\* within the zone.
SuffixOfPlace(offset, count, i) ==
    <<"-">> \o zfill(str(1 + offset + i), Len(str(offset + count)))

\* suffix = '-' + str(1+zone.offset+(i%count)).zfill(len(str(zone.offset+count)))
Suffix(offset, count, i) ==
    <<"-">> \o zfill(str(1 + offset + (i % count)), Len(str(offset + count)))

\* subnet_name = '-'.join(['subnet', PROJECT_NAME.lower(),
\*                         environment.lower(), zone.name, type + suffix])
JoinName(project, environment, zone_name, public, offset, count, i) ==
    join(<<"-">>, <<SubnetWord, lower(project), lower(environment), zone_name,
                    (IF public THEN PublicWord ELSE PrivateWord)
                        \o Suffix(offset, count, i)>>)

\* shortened = dict(dict.fromkeys([...], False))
NotShortened ==
    [resource_type |-> FALSE, environment |-> FALSE, subnet_type |-> FALSE]

\* The loop with the subnet type abbreviated before the resource type is
\* dropped.
ShortenStepTypeFirst(st, environment, public) ==
    IF Len(st.subnet_name) > MaxNameLength
    THEN IF ~st.shortened.subnet_type
         THEN [st EXCEPT !.subnet_name =
                             IF public THEN replace(@, PublicWord, <<"p", "u", "b">>)
                             ELSE replace(@, PrivateWord, <<"p", "r", "i", "v">>),
                         !.shortened.subnet_type = TRUE]
         ELSE IF ~st.shortened.resource_type
         THEN [st EXCEPT !.subnet_name = replace(@, SubnetWord \o <<"-">>, <<>>),
                         !.shortened.resource_type = TRUE]
         ELSE IF ~st.shortened.environment
         THEN [st EXCEPT !.subnet_name =
                             IF lower(environment) = ProdWord
                             THEN replace(@, ProdWord, <<"p", "r", "d">>)
                             ELSE IF lower(environment) = StagingWord
                             THEN replace(@, StagingWord, <<"s", "t", "g">>)
                             ELSE @,
                         !.shortened.environment = TRUE]
         ELSE [st EXCEPT !.running = FALSE]
    ELSE [st EXCEPT !.running = FALSE]

\* The loop without its break: a name that all three rules leave too long
\* is tested again.
ShortenStepNoBreak(st, environment, public) ==
    IF Len(st.subnet_name) > MaxNameLength
    THEN IF ~st.shortened.resource_type
         THEN [st EXCEPT !.subnet_name = replace(@, SubnetWord \o <<"-">>, <<>>),
                         !.shortened.resource_type = TRUE]
         ELSE IF ~st.shortened.subnet_type
         THEN [st EXCEPT !.subnet_name =
                             IF public THEN replace(@, PublicWord, <<"p", "u", "b">>)
                             ELSE replace(@, PrivateWord, <<"p", "r", "i", "v">>),
                         !.shortened.subnet_type = TRUE]
         ELSE IF ~st.shortened.environment
         THEN [st EXCEPT !.subnet_name =
                             IF lower(environment) = ProdWord
                             THEN replace(@, ProdWord, <<"p", "r", "d">>)
                             ELSE IF lower(environment) = StagingWord
                             THEN replace(@, StagingWord, <<"s", "t", "g">>)
                             ELSE @,
                         !.shortened.environment = TRUE]
         ELSE st
    ELSE [st EXCEPT !.running = FALSE]

\* The loop without the test of the length: the rules are applied to every
\* name, and the loop is left once all three have been.
ShortenStepUntested(st, environment, public) ==
    IF ~st.shortened.resource_type
    THEN [st EXCEPT !.subnet_name = replace(@, SubnetWord \o <<"-">>, <<>>),
                    !.shortened.resource_type = TRUE]
    ELSE IF ~st.shortened.subnet_type
    THEN [st EXCEPT !.subnet_name =
                        IF public THEN replace(@, PublicWord, <<"p", "u", "b">>)
                        ELSE replace(@, PrivateWord, <<"p", "r", "i", "v">>),
                    !.shortened.subnet_type = TRUE]
    ELSE IF ~st.shortened.environment
    THEN [st EXCEPT !.subnet_name =
                        IF lower(environment) = ProdWord
                        THEN replace(@, ProdWord, <<"p", "r", "d">>)
                        ELSE IF lower(environment) = StagingWord
                        THEN replace(@, StagingWord, <<"s", "t", "g">>)
                        ELSE @,
                    !.shortened.environment = TRUE]
    ELSE [st EXCEPT !.running = FALSE]

\* One evaluation of the while condition and the body that follows it: st
\* is [subnet_name, shortened, running], running FALSE once the loop is left
\* (the condition fails, or break).
ShortenStep(st, environment, public) ==
    IF Len(st.subnet_name) > MaxNameLength
    THEN IF ~st.shortened.resource_type
         THEN [st EXCEPT !.subnet_name = replace(@, SubnetWord \o <<"-">>, <<>>),
                         !.shortened.resource_type = TRUE]
         ELSE IF ~st.shortened.subnet_type
         THEN [st EXCEPT !.subnet_name =
                             IF public THEN replace(@, PublicWord, <<"p", "u", "b">>)
                             ELSE replace(@, PrivateWord, <<"p", "r", "i", "v">>),
                         !.shortened.subnet_type = TRUE]
         ELSE IF ~st.shortened.environment
         THEN [st EXCEPT !.subnet_name =
                             IF lower(environment) = ProdWord
                             THEN replace(@, ProdWord, <<"p", "r", "d">>)
                             ELSE IF lower(environment) = StagingWord
                             THEN replace(@, StagingWord, <<"s", "t", "g">>)
                             ELSE @,
                         !.shortened.environment = TRUE]
         ELSE [st EXCEPT !.running = FALSE]
    ELSE [st EXCEPT !.running = FALSE]

\* The loop run to its end.
RECURSIVE Shorten(_, _, _)
Shorten(st, environment, public) ==
    IF ~st.running THEN st.subnet_name
    ELSE Shorten(ShortenStep(st, environment, public), environment, public)

\* The name create_subnets gives the subnet at place i of the sorted list.
subnet_name(project, environment, zone_name, public, offset, count, i) ==
    Shorten([subnet_name |-> JoinName(project, environment, zone_name, public,
                                      offset, count, i),
             shortened |-> NotShortened, running |-> TRUE],
            environment, public)

(***************************************************************************)
(* validate_cidr_block                                                     *)
(***************************************************************************)
\* s.split(c), c one character
RECURSIVE split(_, _)
split(s, c) ==
    IF \A k \in 1..Len(s) : s[k] # c THEN <<s>>
    ELSE LET k == CHOOSE j \in 1..Len(s) :
                      s[j] = c /\ \A h \in 1..(j - 1) : s[h] # c
         IN  <<SubSeq(s, 1, k - 1)>> \o split(SubSeq(s, k + 1, Len(s)), c)

IsDigit(ch) ==
    \E d \in 1..Len(Digits) : Digits[d] = ch

DigitsOnly(t) ==
    /\ Len(t) >= 1
    /\ \A k \in 1..Len(t) : IsDigit(t[k])

RECURSIVE ParseDigits(_)
ParseDigits(t) ==
    IF t = <<>> THEN 0
    ELSE 10 * ParseDigits(SubSeq(t, 1, Len(t) - 1))
         + (CHOOSE d \in 0..9 : Digits[d + 1] = t[Len(t)])

\* int(t) of a string int() takes
int(t) ==
    IF t[1] = "-" THEN 0 - ParseDigits(Tail(t))
    ELSE IF t[1] = "+" THEN ParseDigits(Tail(t))
    ELSE ParseDigits(t)

\* str(n) of any integer
str_int(n) ==
    IF n < 0 THEN <<"-">> \o str(0 - n) ELSE str(n)

\* ([0-9]|[1-9][0-9]|[1-2][0-5][0-5])
OctetPattern(t) ==
    \/ Len(t) = 1 /\ IsDigit(t[1])
    \/ Len(t) = 2 /\ t[1] \in {"1", "2", "3", "4", "5", "6", "7", "8", "9"}
                  /\ IsDigit(t[2])
    \/ Len(t) = 3 /\ t[1] \in {"1", "2"}
                  /\ t[2] \in {"0", "1", "2", "3", "4", "5"}
                  /\ t[3] \in {"0", "1", "2", "3", "4", "5"}

\* ^10\.(octet)\.(octet)\.(octet)$ searched in the address: the octet
\* patterns hold no dot, so the address is four parts between dots
ClassA(ip) ==
    LET o == split(ip, ".")
    IN  /\ Len(o) = 4
        /\ o[1] = <<"1", "0">>
        /\ OctetPattern(o[2]) /\ OctetPattern(o[3]) /\ OctetPattern(o[4])

\* ^172\.(1[6-9]|2[0-9]|3[0-1])\.(octet)\.(octet)$
ClassB(ip) ==
    LET o == split(ip, ".")
    IN  /\ Len(o) = 4
        /\ o[1] = <<"1", "7", "2">>
        /\ Len(o[2]) = 2
        /\ \/ o[2][1] = "1" /\ o[2][2] \in {"6", "7", "8", "9"}
           \/ o[2][1] = "2" /\ IsDigit(o[2][2])
           \/ o[2][1] = "3" /\ o[2][2] \in {"0", "1"}
        /\ OctetPattern(o[3]) /\ OctetPattern(o[4])

\* The pattern of the elif at line 39, ^172\.(1[6-9]|2[0-9]|3[0-1|)\.([0-9]|
\* [1-9][0-9]|[1-2][0-5][0-5])\.(octet)$: the class opened after the 3 is
\* closed by the bracket of [0-9] only, so it holds the digits and the
\* characters | ) . ( [, and the first group goes on to the alternatives
\* [1-9][0-9] and [1-2][0-5][0-5].  The pattern is 172, a dot, the first
\* group x of two or three characters, a dot, and one octet y.
ClassBOfElif(ip) ==
    \E n \in 2..3, m \in 1..3 :
        /\ Len(ip) = 4 + n + 1 + m
        /\ SubSeq(ip, 1, 4) = <<"1", "7", "2", ".">>
        /\ ip[4 + n + 1] = "."
        /\ LET x == SubSeq(ip, 5, 4 + n)
               y == SubSeq(ip, 4 + n + 2, Len(ip))
           IN  /\ OctetPattern(y)
               /\ \/ n = 2 /\ x[1] = "1" /\ x[2] \in {"6", "7", "8", "9"}
                  \/ n = 2 /\ x[1] = "2" /\ IsDigit(x[2])
                  \/ n = 2 /\ x[1] = "3"
                           /\ (IsDigit(x[2]) \/ x[2] \in {"|", ")", ".", "(", "["})
                  \/ OctetPattern(x)

\* ^192\.168\.(octet)\.(octet)$
ClassC(ip) ==
    LET o == split(ip, ".")
    IN  /\ Len(o) = 4
        /\ o[1] = <<"1", "9", "2">>
        /\ o[2] = <<"1", "6", "8">>
        /\ OctetPattern(o[3]) /\ OctetPattern(o[4])

\* What a call of validate_cidr_block ends with: the value it returns, or
\* the exception that leaves it.
Returns(value) ==
    [returned |-> value, raised |-> "none"]

Escapes(type) ==
    [returned |-> "none", raised |-> type]

\* Where a call of validate_cidr_block leaves its try block: itemgetter(0, 1)
\* raises IndexError on a list of one part and int() raises ValueError; the
\* asserts of lines 30, 37, 40, 43 and 49 raise AssertionError; line 52
\* returns True.
validate_cidr_block_exit(cidr_block) ==
    LET parts == split(cidr_block, "/")
        \* The strings int() takes, among those of digits, signs, letters and
        \* punctuation without white space or underscore: an optional sign
        \* and one digit or more.
        IntLiteral(t) ==
            \/ DigitsOnly(t)
            \/ Len(t) >= 2 /\ t[1] \in {"+", "-"} /\ DigitsOnly(Tail(t))
        \* (^[1-2]?[0-9]$)|(^3[0-2]$)
        NetmaskPattern(t) ==
            \/ Len(t) = 1 /\ IsDigit(t[1])
            \/ Len(t) = 2 /\ t[1] \in {"1", "2"} /\ IsDigit(t[2])
            \/ Len(t) = 2 /\ t[1] = "3" /\ t[2] \in {"0", "1", "2"}
    IN  IF Len(parts) < 2 THEN "IndexError"
        ELSE IF ~IntLiteral(parts[2]) THEN "ValueError"
        ELSE LET network_ip == parts[1]
                 netmask    == int(parts[2])
             IN  IF ~(/\ ClassA(network_ip) \/ ClassB(network_ip) \/ ClassC(network_ip)
                      /\ NetmaskPattern(str_int(netmask)))
                 THEN "assert_rfc1918"
                 ELSE IF ClassA(network_ip) /\ ~(netmask >= 8)
                 THEN "assert_class_a"
                 ELSE IF ~ClassA(network_ip) /\ ClassBOfElif(network_ip)
                         /\ ~(netmask >= 12)
                 THEN "assert_class_b"
                 ELSE IF ~ClassA(network_ip) /\ ~ClassBOfElif(network_ip)
                         /\ ClassC(network_ip) /\ ~(netmask >= 16)
                 THEN "assert_class_c"
                 ELSE IF ~(netmask >= 16 /\ netmask <= 28)
                 THEN "assert_vpc_netmask"
                 ELSE "return_true"

\* validate_cidr_block: only AssertionError is caught, and answered False.
validate_cidr_block(cidr_block) ==
    LET exit == validate_cidr_block_exit(cidr_block)
    IN  IF exit \in {"IndexError", "ValueError"} THEN Escapes(exit)
        ELSE IF exit = "return_true" THEN Returns("True")
        ELSE Returns("False")

\* The logger.error messages of a call of validate_cidr_block, in the order
\* they are written: line 48 before the assert of line 49, and line 54 in
\* the except clause.
validate_cidr_block_errors(cidr_block) ==
    LET exit == validate_cidr_block_exit(cidr_block)
    IN  IF exit \in {"IndexError", "ValueError", "return_true"} THEN <<>>
        ELSE IF exit = "assert_vpc_netmask"
        THEN <<"vpc_netmask", "invalid_cidr_block">>
        ELSE <<"invalid_cidr_block">>

(***************************************************************************)
(* Bounds of the model.                                                    *)
(***************************************************************************)
\* Subnets per zone (count) the driver asks for: 1..MaxCount.
MaxCount == 2
\* Invocations of create_subnets in one run.
MaxInvocations == 2
\* The counters of a retry loop are kept for its first MaxAttempts calls.
MaxAttempts == 2
\* The provider answers an association with an empty id only for one of the
\* first MaxEmptyIdSubnet subnets of the VPC.
MaxEmptyIdSubnet == 2

(***************************************************************************)
(* Inputs of a run.                                                        *)
(***************************************************************************)
CidrBlocks ==
    {Cidr(10, 0, 0, 0, 16)}

\* Zone names in lexicographic order; Rank is the position in that order.
ZoneNames ==
    <<"us-east-1a", "us-east-1b", "us-east-1c">>

Rank(name) ==
    CHOOSE k \in 1..Len(ZoneNames) : ZoneNames[k] = name

\* zone.name as a string of characters
ZoneText(name) ==
    <<"u", "s", "-", "e", "a", "s", "t", "-", "1", LowerCase[Rank(name)]>>

\* The zone lists get_all_zones returns, in the order it returns them.
ZoneLists ==
    {<<"us-east-1c">>,
     <<"us-east-1a", "us-east-1c", "us-east-1b">>}

\* core.PROJECT_NAME and core.args.environment, which the names of the
\* subnets are made of: a setting whose names fit, and one whose names stay
\* longer than MaxNameLength whatever is shortened.
CoreSettings ==
    {[PROJECT_NAME |-> <<"s", "k", "y">>,
      environment |-> <<"p", "r", "o", "d">>],
     [PROJECT_NAME |-> <<"D", "j", "a", "n", "g", "o", "-", "S", "k", "y", "C", "a", "n", "v", "a", "s">>,
      environment |-> <<"P", "r", "o", "d", "u", "c", "t", "i", "o", "n">>]}

\* The arguments of create_vpc, and the settings of core the run has.
Configs ==
    [cidr_block : CidrBlocks, internet_connected : BOOLEAN, core : CoreSettings]

\* vpc_connection = vpc.connect_vpc(): the connection object main holds,
\* which is no string and has no split.
VpcConnection ==
    [object |-> "VPCConnection"]

\* cidr_block = '10.0.0.0/16' of main
MainCidrBlock ==
    <<"1", "0", ".", "0", ".", "0", ".", "0", "/", "1", "6">>

\* main: if not vpc.validate_cidr_block(cidr_block): sys.exit(1); then
\* vpc.create_vpc(vpc_connection, cidr_block), which binds the connection
\* object to cidr_block and the string to internet_connected.  create_vpc
\* reads internet_connected in `if internet_connected:` only, so config
\* keeps its truth value (a string is true unless it is empty).
MainConfigs ==
    IF validate_cidr_block(MainCidrBlock) = Returns("True")
    THEN {[cidr_block |-> VpcConnection, internet_connected |-> MainCidrBlock # <<>>,
           core |-> s] : s \in CoreSettings}
    ELSE {}

\* The arguments of create_subnets besides vpc.
SubnetArgs ==
    [zones : ZoneLists, count : 1..MaxCount, byte_aligned : BOOLEAN,
     balanced : BOOLEAN, public : BOOLEAN]

NoArgs ==
    [zones |-> <<>>, count |-> 0, byte_aligned |-> FALSE, balanced |-> FALSE,
     public |-> FALSE]

(***************************************************************************)
(* Exceptions and provider answers.                                        *)
(***************************************************************************)
Exc(type, status, code) ==
    [type |-> type, status |-> status, code |-> code]

\* boto.exception.EC2ResponseError(status, reason) with its error code
Err(status, code) ==
    Exc("EC2ResponseError", status, code)

\* What a provider call answers when it raises nothing, and no answer yet.
Ok ==
    Exc("ok", 200, "")

True ==
    Exc("True", 200, "")

False ==
    Exc("False", 200, "")

None ==
    Exc("none", 0, "")

IsError(r) ==
    r.type = "EC2ResponseError"

\* The not-yet-visible codes the loops of the two modules test for.
NotFoundCodes ==
    {"InvalidVpcID.NotFound", "InvalidID", "InvalidNetworkAclID.NotFound",
     "InvalidInternetGatewayID.NotFound", "InvalidSubnetID.NotFound",
     "InvalidInstanceID.NotFound", "InvalidNetworkInterfaceID.NotFound"}

Unauthorized ==
    Err(403, "UnauthorizedOperation")


\* A provider call outside any try block.
CallResponses ==
    {Ok, Unauthorized}

\* vpc_connection.create_vpc
VpcResponses ==
    {Ok, Err(400, "VpcLimitExceeded"), Err(400, "InvalidParameterValue"), Unauthorized}

\* The while loops of the two modules, named by their program position.
Loops ==
    {"cv_tag_vpc", "cv_tag_rtb", "cv_tag_acl", "cv_tag_dopt", "ig_tag",
     "rt_tag", "sn_tag", "ec_tag_instances", "ec_get_enis", "ec_tag_eni"}

\* The error code each loop's except clause passes on.
Whitelist(l) ==
    CASE l = "cv_tag_vpc"       -> "InvalidVpcID.NotFound"
      [] l = "cv_tag_rtb"       -> "InvalidID"
      [] l = "cv_tag_acl"       -> "InvalidNetworkAclID.NotFound"
      [] l = "cv_tag_dopt"      -> "InvalidID"
      [] l = "ig_tag"           -> "InvalidInternetGatewayID.NotFound"
      [] l = "rt_tag"           -> "InvalidID"
      [] l = "sn_tag"           -> "InvalidSubnetID.NotFound"
      [] l = "ec_tag_instances" -> "InvalidInstanceID.NotFound"
      [] l = "ec_get_enis"      -> "InvalidInstanceID.NotFound"
      [] l = "ec_tag_eni"       -> "InvalidNetworkInterfaceID.NotFound"

\* What create_tags (or the listing of ec_get_enis) may answer in loop l.
TagResponses(l) ==
    LET \* a not-yet-visible code that another loop passes on and l does not
        Foreign == IF Whitelist(l) = "InvalidID"
                   THEN "InvalidVpcID.NotFound" ELSE "InvalidID"
    IN  {True, False, Unauthorized, Err(400, Whitelist(l)), Err(400, Foreign)}

\* An except clause without its test of error.code: every error is fatal.
NoErrorPassed(l, error) ==
    FALSE

\* An except clause that passes on the not-yet-visible code of any loop.
AnyNotFoundPassed(l, error) ==
    error.code \in NotFoundCodes

\* if error.code == <the loop's code>: pass
IsTransient(l, error) ==
    error.code = Whitelist(l)

VARIABLES
    pc,                \* the position of the sequential program
    config,            \* the arguments of create_vpc and the settings of core
    args,              \* the arguments of the create_subnets invocation
    cloud,             \* the provider's state
    new_vpc,           \* create_vpc's new_vpc, later the vpc argument
    todo,              \* the rest of the list a for loop of create_vpc walks
    igw_caller,        \* who called attach_internet_gateway
    internet_gateway,  \* the gateway attach_internet_gateway / create_route_table holds
    route_table,       \* the route table of create_route_table / create_subnets
    cs,                \* the locals of create_subnets
    subnet,            \* the locals of create_subnet
    loop,              \* the running while loop: counters and the last answer
    fault,             \* the last provider error that no whitelist covers
    raised,            \* the exception that ended the run
    log,               \* the kinds of logger.error messages written
    invocations,       \* create_subnets invocations started
    calc               \* a function called on its own: its arguments and result

vars ==
    <<pc, config, args, cloud, new_vpc, todo, igw_caller, internet_gateway,
      route_table, cs, subnet, loop, fault, raised, log, invocations, calc>>

NoLoop ==
    [attempts |-> 0, transients |-> 0, falses |-> 0, resp |-> None]

NoLocals ==
    [zones |-> <<>>, num_subnets |-> 0, subnet_netmask |-> 0, i |-> 0,
     subnet_name |-> <<>>, shortened |-> NotShortened,
     subnets |-> <<>>, assigned |-> <<>>]

\* create_subnet before its subnet is bound (id 0)
NoSubnet ==
    [id |-> 0, zone |-> "", cidr_block |-> Cidr(0, 0, 0, 0, 0),
     subnet_name |-> <<>>, public |-> FALSE]

\* new_vpc = None (id 0)
NoVpc ==
    [id |-> 0, cidr_block |-> Cidr(0, 0, 0, 0, 0)]

NoRouteTable ==
    [id |-> 0, igw_route |-> FALSE]

EmptyCloud ==
    [vpcs |-> 0, route_tables |-> <<>>, acls |-> 0, dopts |-> 0,
     gateways |-> <<>>, subnets |-> <<>>, instances |-> 0, tags |-> {}]

\* No function is called on its own.
NoCalc ==
    [fn |-> "none", done |-> TRUE]

Init ==
    /\ pc = "cv_create"
    /\ config \in Configs \cup MainConfigs
    /\ args = NoArgs
    /\ cloud = EmptyCloud
    /\ new_vpc = NoVpc
    /\ todo = <<>>
    /\ igw_caller = "none"
    /\ internet_gateway = 0
    /\ route_table = NoRouteTable
    /\ cs = NoLocals
    /\ subnet = NoSubnet
    /\ loop = NoLoop
    /\ fault = None
    /\ raised = None
    /\ log = {}
    /\ invocations = 0
    /\ calc = NoCalc

\* An exception leaves every frame: nothing in the two modules catches it.
Raise(e) ==
    /\ pc' = "raised"
    /\ raised' = e
    /\ loop' = NoLoop

\* A provider error raised outside any try block propagates as it is.
Propagate(e) ==
    /\ Raise(e)
    /\ fault' = e

(***************************************************************************)
(* The while loops: while not tagged: try: tagged = create_tags(...)       *)
(* except EC2ResponseError as error: if error.code == <code>: pass         *)
(* else: raise boto.exception.EC2ResponseError                             *)
(***************************************************************************)
\* The resource a loop tags and the Type tag it sets ("" for none).
Resource(l) ==
    CASE l = "cv_tag_vpc"       -> <<"vpc", 1>>
      [] l = "cv_tag_rtb"       -> <<"rtb", Head(todo)>>
      [] l = "cv_tag_acl"       -> <<"acl", Head(todo)>>
      [] l = "cv_tag_dopt"      -> <<"dopt", Head(todo)>>
      [] l = "ig_tag"           -> <<"igw", internet_gateway>>
      [] l = "rt_tag"           -> <<"rtb", route_table.id>>
      [] l = "sn_tag"           -> <<"subnet", subnet.id>>
      [] l = "ec_tag_instances" -> <<"instance", cloud.instances>>
      [] l = "ec_get_enis"      -> <<"eni", cloud.instances>>
      [] l = "ec_tag_eni"       -> <<"eni", cloud.instances>>

TagType(l) ==
    CASE l = "cv_tag_rtb" -> "main"
      [] l = "rt_tag"     -> IF args.public THEN "public" ELSE "private"
      [] l = "sn_tag"     -> IF subnet.public THEN "public" ELSE "private"
      [] OTHER            -> ""

Counted ==
    loop.attempts <= MaxAttempts

\* The loop's counters after one more call, which answered r.
Called(r) ==
    IF loop.attempts < MaxAttempts
    THEN [loop EXCEPT !.attempts = @ + 1, !.resp = r]
    ELSE \* more than MaxAttempts calls: the counters are kept no longer
         [attempts |-> MaxAttempts + 1, transients |-> 0, falses |-> 0,
          resp |-> r]

\* One more of the kind n counts, while the counters are kept.
Count(n) ==
    IF Counted THEN n + 1 ELSE n

\* try: tagged = ec2_connection.create_tags(...)
Try(l) ==
    /\ pc = l
    /\ loop.resp = None
    /\ LET \* the provider's state after a create_tags call that returned
           \* True: the Type tag of the resource and, of the tags
           \* create_subnet gives, the Name tag
           named  == IF l = "sn_tag"
                     THEN {[id |-> Resource(l), Name |-> subnet.subnet_name]}
                     ELSE {}
           tagged == IF l = "ec_get_enis" THEN cloud
                     ELSE [cloud EXCEPT !.tags = @ \cup named \cup
                                                   {[id |-> Resource(l),
                                                     type |-> TagType(l)]}]
       IN
       IF l = "cv_tag_vpc" /\ new_vpc = NoVpc   \* an attribute of None
       THEN /\ Raise(Exc("AttributeError", 0, ""))
            /\ UNCHANGED <<cloud, fault>>
       ELSE /\ \E r \in TagResponses(l) :
                 /\ loop' = Called(r)
                 /\ cloud' = IF r = True THEN tagged ELSE cloud
                 /\ fault' = IF IsError(r) /\ ~IsTransient(l, r) THEN r ELSE fault
            /\ UNCHANGED <<pc, raised>>
    /\ UNCHANGED <<config, args, new_vpc, todo, igw_caller, internet_gateway,
                   route_table, cs, subnet, log, invocations, calc>>

\* A loop that takes a false answer for the end of the tagging.
AgainAccepts(l) ==
    /\ pc = l
    /\ loop.resp = False
    /\ loop' = [loop EXCEPT !.resp = True]
    /\ UNCHANGED <<pc, config, args, cloud, new_vpc, todo, igw_caller,
                   internet_gateway, route_table, cs, subnet, fault, raised,
                   log, invocations, calc>>

\* while not tagged: a falsy answer runs the body again
Again(l) ==
    /\ pc = l
    /\ loop.resp = False
    /\ loop' = [loop EXCEPT !.resp = None, !.falses = Count(@)]
    /\ UNCHANGED <<pc, config, args, cloud, new_vpc, todo, igw_caller,
                   internet_gateway, route_table, cs, subnet, fault, raised,
                   log, invocations, calc>>

\* raise boto.exception.EC2ResponseError: the class is instantiated without
\* its required status and reason, so what leaves the loop is a TypeError.
Reraise(error) ==
    Exc("TypeError", 0, "")

\* except boto.exception.EC2ResponseError as error
Except(l) ==
    /\ pc = l
    /\ IsError(loop.resp)
    /\ IF IsTransient(l, loop.resp)
       THEN /\ loop' = [loop EXCEPT !.resp = None, !.transients = Count(@)]
            /\ UNCHANGED <<pc, raised>>
       ELSE Raise(Reraise(loop.resp))
    /\ UNCHANGED <<config, args, cloud, new_vpc, todo, igw_caller, internet_gateway,
                   route_table, cs, subnet, fault, log, invocations, calc>>

RetryLoop(l) ==
    \/ Try(l)
    \/ Again(l)
    \/ Except(l)

\* The loop has ended: its last call returned a true value.
Tagged(l) ==
    pc = l /\ loop.resp = True

(***************************************************************************)
(* create_vpc                                                              *)
(***************************************************************************)
\* new_vpc = vpc_connection.create_vpc(cidr_block, ...); an EC2ResponseError
\* is logged when its status is 400 and dropped whatever its status.
CreateVpc ==
    /\ pc = "cv_create"
    /\ \E r \in VpcResponses :
         IF r = Ok
         THEN /\ new_vpc' = [id |-> 1, cidr_block |-> config.cidr_block]
              /\ cloud' = [cloud EXCEPT !.vpcs = 1,
                                        !.route_tables = <<[main |-> TRUE, igw_route |-> FALSE]>>,
                                        !.acls = 1, !.dopts = 1]
              /\ UNCHANGED <<fault, log>>
         ELSE /\ new_vpc' = NoVpc
              /\ fault' = r
              /\ log' = IF r.status = 400 THEN log \cup {"create_vpc"} ELSE log
              /\ UNCHANGED cloud
    /\ pc' = "cv_tag_vpc"
    /\ UNCHANGED <<config, args, todo, igw_caller, internet_gateway, route_table,
                   cs, subnet, loop, raised, invocations, calc>>

TagVpc ==
    RetryLoop("cv_tag_vpc")

\* A listing call of create_vpc and the for loop over its result.
ListAndWalk(n, first, empty) ==
    /\ \E r \in CallResponses :
         IF r = Ok
         THEN /\ todo' = [k \in 1..n |-> k]
              /\ pc' = IF n > 0 THEN first ELSE empty
              /\ loop' = NoLoop
              /\ UNCHANGED <<fault, raised>>
         ELSE /\ Propagate(r)
              /\ UNCHANGED todo
    /\ UNCHANGED <<config, args, cloud, new_vpc, igw_caller, internet_gateway,
                   route_table, cs, subnet, log, invocations, calc>>

\* The next element of a for loop of create_vpc, or what follows the loop.
WalkOn(l, after) ==
    /\ Tagged(l)
    /\ todo' = Tail(todo)
    /\ pc' = IF Len(todo) > 1 THEN l ELSE after
    /\ loop' = NoLoop
    /\ UNCHANGED <<config, args, cloud, new_vpc, igw_caller, internet_gateway,
                   route_table, cs, subnet, fault, raised, log, invocations, calc>>

\* create_vpc with the gateway attached right after the VPC is tagged, the
\* route tables being listed only when no gateway is asked for.
GatewayBeforeRouteTables ==
    /\ Tagged("cv_tag_vpc")
    /\ IF config.internet_connected
       THEN /\ pc' = "ig_create"
            /\ igw_caller' = "create_vpc"
            /\ loop' = NoLoop
            /\ UNCHANGED <<config, args, cloud, new_vpc, todo, internet_gateway,
                           route_table, cs, subnet, fault, raised, log, invocations, calc>>
       ELSE ListAndWalk(Len(cloud.route_tables), "cv_tag_rtb", "cv_acls")

\* route_tables = vpc_connection.get_all_route_tables(filters={'vpc-id': ...})
GetRouteTables ==
    /\ Tagged("cv_tag_vpc")
    /\ ListAndWalk(Len(cloud.route_tables), "cv_tag_rtb", "cv_acls")

TagMainRouteTable ==
    \/ RetryLoop("cv_tag_rtb")
    \/ WalkOn("cv_tag_rtb", "cv_acls")

\* acls = vpc_connection.get_all_network_acls(filters={'vpc-id': ...})
GetNetworkAcls ==
    /\ pc = "cv_acls"
    /\ ListAndWalk(cloud.acls, "cv_tag_acl", "cv_dopts")

TagNetworkAcl ==
    \/ RetryLoop("cv_tag_acl")
    \/ WalkOn("cv_tag_acl", "cv_dopts")

\* dhcp_options = vpc_connection.get_all_dhcp_options(new_vpc.dhcp_options_id)
GetDhcpOptions ==
    /\ pc = "cv_dopts"
    /\ ListAndWalk(cloud.dopts, "cv_tag_dopt", "cv_gateway")

TagDhcpOptions ==
    \/ RetryLoop("cv_tag_dopt")
    \/ WalkOn("cv_tag_dopt", "cv_gateway")

\* if internet_connected: attach_internet_gateway(new_vpc); return new_vpc
CreateVpcReturn ==
    /\ pc = "cv_gateway"
    /\ IF config.internet_connected
       THEN /\ pc' = "ig_create"
            /\ igw_caller' = "create_vpc"
       ELSE /\ pc' = "idle"
            /\ UNCHANGED igw_caller
    /\ UNCHANGED <<config, args, cloud, new_vpc, todo, internet_gateway, route_table,
                   cs, subnet, loop, fault, raised, log, invocations, calc>>

(***************************************************************************)
(* attach_internet_gateway                                                 *)
(***************************************************************************)
\* internet_gateway = vpc_connection.create_internet_gateway(dry_run=False)
CreateInternetGateway ==
    /\ pc = "ig_create"
    /\ \E r \in CallResponses :
         IF r = Ok
         THEN /\ cloud' = [cloud EXCEPT !.gateways =
                               Append(@, [attached |-> FALSE, attach_requested |-> FALSE])]
              /\ internet_gateway' = Len(cloud.gateways) + 1
              /\ pc' = "ig_tag"
              /\ loop' = NoLoop
              /\ UNCHANGED <<fault, raised>>
         ELSE /\ Propagate(r)
              /\ UNCHANGED <<cloud, internet_gateway>>
    /\ UNCHANGED <<config, args, new_vpc, todo, igw_caller, route_table, cs, subnet,
                   log, invocations, calc>>

TagInternetGateway ==
    RetryLoop("ig_tag")

\* vpc_tags = ec2_connection.get_all_tags(filters=...);
\* vpc_name = [tag.value for tag in vpc_tags if tag.name == 'Name'][0]:
\* the listing holds the Name tag of the VPC or, as long as the provider
\* does not show it yet, no tag, and [0] of no tag raises IndexError.
GetVpcName ==
    /\ Tagged("ig_tag")
    /\ \/ /\ [id |-> <<"vpc", new_vpc.id>>, type |-> ""] \in cloud.tags
          /\ pc' = "ig_attach"
          /\ loop' = NoLoop
          /\ UNCHANGED <<fault, raised>>
       \/ /\ Raise(Exc("IndexError", 0, ""))
          /\ UNCHANGED fault
       \/ Propagate(Unauthorized)
    /\ UNCHANGED <<config, args, cloud, new_vpc, todo, igw_caller, internet_gateway,
                   route_table, cs, subnet, log, invocations, calc>>

\* The provider's answers to attach_internet_gateway: a boolean, or an error.
AttachResponses ==
    {True, False, Unauthorized}

\* attach_internet_gateway raising where the provider's answer is false.
AttachFailureRaises ==
    /\ pc = "ig_attach"
    /\ \E r \in AttachResponses :
         IF IsError(r)
         THEN /\ Propagate(r)
              /\ cloud' = [cloud EXCEPT !.gateways[internet_gateway].attach_requested = TRUE]
              /\ UNCHANGED <<log, igw_caller>>
         ELSE IF r = False
         THEN /\ Raise(Exc("EC2ResponseError", 0, ""))
              /\ cloud' = [cloud EXCEPT !.gateways[internet_gateway].attach_requested = TRUE]
              /\ UNCHANGED <<log, igw_caller, fault>>
         ELSE /\ cloud' = [cloud EXCEPT !.gateways[internet_gateway] =
                               [attached |-> TRUE, attach_requested |-> TRUE]]
              /\ pc' = IF igw_caller = "create_vpc" THEN "idle" ELSE "rt_create_route"
              /\ igw_caller' = "none"
              /\ loop' = NoLoop
              /\ UNCHANGED <<fault, raised, log>>
    /\ UNCHANGED <<config, args, new_vpc, todo, internet_gateway, route_table, cs,
                   subnet, invocations, calc>>

\* attached = vpc_connection.attach_internet_gateway(internet_gateway.id,
\* vpc.id); a false answer is logged; return internet_gateway
AttachInternetGateway ==
    /\ pc = "ig_attach"
    /\ \E r \in AttachResponses :
         IF IsError(r)
         THEN /\ Propagate(r)
              /\ cloud' = [cloud EXCEPT !.gateways[internet_gateway].attach_requested = TRUE]
              /\ UNCHANGED <<log, igw_caller>>
         ELSE /\ cloud' = [cloud EXCEPT !.gateways[internet_gateway] =
                               [attached |-> (r = True), attach_requested |-> TRUE]]
              /\ log' = IF r = False THEN log \cup {"attach_internet_gateway"} ELSE log
              /\ pc' = IF igw_caller = "create_vpc" THEN "idle" ELSE "rt_create_route"
              /\ igw_caller' = "none"
              /\ loop' = NoLoop
              /\ UNCHANGED <<fault, raised>>
    /\ UNCHANGED <<config, args, new_vpc, todo, internet_gateway, route_table, cs,
                   subnet, invocations, calc>>

(***************************************************************************)
(* create_route_table                                                      *)
(***************************************************************************)
\* route_table = vpc_connection.create_route_table(vpc.id)
CreateRouteTable ==
    /\ pc = "rt_create"
    /\ \E r \in CallResponses :
         IF r = Ok
         THEN /\ cloud' = [cloud EXCEPT !.route_tables =
                               Append(@, [main |-> FALSE, igw_route |-> FALSE])]
              /\ route_table' = [id |-> Len(cloud.route_tables) + 1,
                                 igw_route |-> FALSE]
              /\ pc' = IF args.public THEN "rt_get_igws" ELSE "rt_name"
              /\ UNCHANGED <<fault, raised, loop>>
         ELSE /\ Propagate(r)
              /\ UNCHANGED <<cloud, route_table>>
    /\ UNCHANGED <<config, args, new_vpc, todo, igw_caller, internet_gateway,
                   cs, subnet, log, invocations, calc>>

\* internet_gateways = get_all_internet_gateways(filters=...): the listing
\* holds attached gateways in the order the provider gives them, or, as
\* long as the provider does not show them yet, none; element [0] is taken,
\* which may be any attached gateway, and attach_internet_gateway(vpc) is
\* called when none is listed
GetInternetGateways ==
    /\ pc = "rt_get_igws"
    /\ \/ \E first \in {g \in 1..Len(cloud.gateways) : cloud.gateways[g].attached}
                        \cup {0} :
            /\ IF first # 0
               THEN /\ internet_gateway' = first
                    /\ pc' = "rt_create_route"
                    /\ UNCHANGED igw_caller
               ELSE /\ pc' = "ig_create"
                    /\ igw_caller' = "create_route_table"
                    /\ UNCHANGED internet_gateway
            /\ UNCHANGED <<fault, raised, loop>>
       \/ /\ Propagate(Unauthorized)
          /\ UNCHANGED <<internet_gateway, igw_caller>>
    /\ UNCHANGED <<config, args, cloud, new_vpc, todo, route_table, cs, subnet,
                   log, invocations, calc>>

\* vpc_connection.create_route(route_table.id, '0.0.0.0/0', gateway_id=...)
CreateRoute ==
    /\ pc = "rt_create_route"
    /\ \E r \in CallResponses :
         IF r = Ok
         THEN /\ cloud' = [cloud EXCEPT !.route_tables[route_table.id].igw_route = TRUE]
              /\ pc' = "rt_refresh"
              /\ UNCHANGED <<fault, raised, loop>>
         ELSE /\ Propagate(r)
              /\ UNCHANGED cloud
    /\ UNCHANGED <<config, args, new_vpc, todo, igw_caller, internet_gateway,
                   route_table, cs, subnet, log, invocations, calc>>

\* route_table = vpc_connection.get_all_route_tables(route_table.id)[0]:
\* the listing holds the route table as the provider has it or, as long
\* as the provider does not show it yet, nothing, and [0] of nothing raises
\* IndexError.
RefreshRouteTable ==
    /\ pc = "rt_refresh"
    /\ \/ /\ route_table' = [route_table EXCEPT
                                 !.igw_route = cloud.route_tables[route_table.id].igw_route]
          /\ pc' = "rt_name"
          /\ UNCHANGED <<fault, raised, loop>>
       \/ /\ Raise(Exc("IndexError", 0, ""))
          /\ UNCHANGED <<fault, route_table>>
       \/ /\ Propagate(Unauthorized)
          /\ UNCHANGED route_table
    /\ UNCHANGED <<config, args, cloud, new_vpc, todo, igw_caller, internet_gateway,
                   cs, subnet, log, invocations, calc>>

\* route_tables = get_all_route_tables(...); public_route_tables = ...;
\* the name of the route table is generated
NameRouteTable ==
    /\ pc = "rt_name"
    /\ \E r \in CallResponses :
         IF r = Ok
         THEN /\ pc' = "rt_tag"
              /\ loop' = NoLoop
              /\ UNCHANGED <<fault, raised>>
         ELSE Propagate(r)
    /\ UNCHANGED <<config, args, cloud, new_vpc, todo, igw_caller,
                   internet_gateway, route_table, cs, subnet, log, invocations, calc>>

\* The tagging loop of create_route_table, and return route_table.
TagRouteTable ==
    \/ RetryLoop("rt_tag")
    \/ /\ Tagged("rt_tag")
       /\ pc' = "cs_loop"
       /\ loop' = NoLoop
       /\ UNCHANGED <<config, args, cloud, new_vpc, todo, igw_caller,
                      internet_gateway, route_table, cs, subnet, fault, raised,
                      log, invocations, calc>>

(***************************************************************************)
(* create_subnets                                                          *)
(***************************************************************************)
\* offset = len(get_all_subnets(filters={vpc-id, availability-zone, tag:Type}))
Offset(name, public) ==
    LET \* the Type tag the provider holds for a subnet ("" when it has none)
        SubnetType(k) ==
            IF [id |-> <<"subnet", k>>, type |-> "public"] \in cloud.tags
            THEN "public"
            ELSE IF [id |-> <<"subnet", k>>, type |-> "private"] \in cloud.tags
            THEN "private"
            ELSE ""
    IN  Cardinality({k \in 1..Len(cloud.subnets) :
                        /\ cloud.subnets[k].zone = name
                        /\ SubnetType(k) = (IF public THEN "public" ELSE "private")})

\* zones*count
RECURSIVE Repeat(_, _)
Repeat(zones, count) ==
    IF count <= 0 THEN <<>> ELSE zones \o Repeat(zones, count - 1)

\* The list left in the order it is given.
unsorted(s) ==
    s

\* sorted(..., key=lambda zone: zone.name): Python's sort is stable, so the
\* element at place k of s goes after the elements of smaller name and the
\* elements of the same name that stand before it.
sorted(s) ==
    LET Before(j, k) ==
            \/ Rank(s[j].name) < Rank(s[k].name)
            \/ Rank(s[j].name) = Rank(s[k].name) /\ j < k
    IN  [p \in 1..Len(s) |->
            s[CHOOSE k \in 1..Len(s) :
                  Cardinality({j \in 1..Len(s) : Before(j, k)}) = p - 1]]

\* get_cidr_block_components(vpc.cidr_block), which calls split on the
\* block and so raises AttributeError on a block that is no string;
\* zones = get_all_zones(zones); zone.offset = ...; num_subnets = ...;
\* subnet_netmask = ...; route_table = create_route_table(vpc, ...)
QuerySubnets ==
    /\ pc = "cs_query"
    /\ \E r \in CallResponses :
         IF new_vpc.cidr_block = VpcConnection
         THEN /\ Raise(Exc("AttributeError", 0, ""))
              /\ UNCHANGED <<cs, fault>>
         ELSE IF r = Ok
         THEN /\ cs' = [zones |-> [k \in 1..Len(args.zones) |->
                                      [name |-> args.zones[k],
                                       offset |-> Offset(args.zones[k], args.public)]],
                        num_subnets |-> Len(cloud.subnets),
                        subnet_netmask |->
                            subnet_netmask(get_cidr_block_components(new_vpc.cidr_block).netmask,
                                           Len(cloud.subnets), Len(args.zones),
                                           args.count, args.balanced, args.byte_aligned),
                        i |-> 0, subnet_name |-> <<>>, shortened |-> NotShortened,
                        subnets |-> <<>>, assigned |-> <<>>]
              /\ pc' = "rt_create"
              /\ UNCHANGED <<fault, raised, loop>>
         ELSE /\ Propagate(r)
              /\ UNCHANGED cs
    /\ UNCHANGED <<config, args, cloud, new_vpc, todo, igw_caller,
                   internet_gateway, route_table, subnet, log, invocations, calc>>

\* The call of create_subnet with a shift that takes any count: the block
\* is computed whatever subnet_netmask is.
CallCreateSubnetAnyShift ==
    /\ pc = "cs_block"
    /\ LET order == sorted(Repeat(cs.zones, args.count))
           ip    == subnet_network_ip(get_cidr_block_components(new_vpc.cidr_block).network_ip,
                                      cs.num_subnets, cs.i, cs.subnet_netmask)
           block == subnet_cidr_block(ip, cs.subnet_netmask)
       IN  /\ cs' = [cs EXCEPT !.assigned = Append(@, block)]
           /\ subnet' = [id |-> 0, zone |-> order[cs.i + 1].name,
                              cidr_block |-> block,
                              subnet_name |-> cs.subnet_name, public |-> FALSE]
           /\ pc' = "sn_create"
    /\ UNCHANGED <<config, args, cloud, new_vpc, todo, igw_caller, internet_gateway,
                   route_table, fault, log, invocations, raised, loop, calc>>

\* The call of create_subnet counting the subnets of the VPC anew for every
\* block instead of using the number read before the loop.
CallCreateSubnetRecounts ==
    /\ pc = "cs_block"
    /\ LET order == sorted(Repeat(cs.zones, args.count))
           ip    == subnet_network_ip(get_cidr_block_components(new_vpc.cidr_block).network_ip,
                                      Len(cloud.subnets), cs.i, cs.subnet_netmask)
           block == subnet_cidr_block(ip, cs.subnet_netmask)
       IN  IF 32 - cs.subnet_netmask < 0
           THEN /\ Raise(Exc("ValueError", 0, ""))
                /\ UNCHANGED <<cs, subnet>>
           ELSE /\ cs' = [cs EXCEPT !.assigned = Append(@, block)]
                /\ subnet' = [id |-> 0, zone |-> order[cs.i + 1].name,
                              cidr_block |-> block,
                              subnet_name |-> cs.subnet_name, public |-> FALSE]
                /\ pc' = "sn_create"
                /\ UNCHANGED <<raised, loop>>
    /\ UNCHANGED <<config, args, cloud, new_vpc, todo, igw_caller,
                   internet_gateway, route_table, fault, log, invocations, calc>>

\* for i, zone in enumerate(sorted(zones*count, key=...)): suffix = ...;
\* subnet_name = '-'.join([...]); shortened = dict(...); after the last
\* element, return subnets
NextSubnet ==
    /\ pc = "cs_loop"
    /\ LET order == sorted(Repeat(cs.zones, args.count))
       IN  IF cs.i >= Len(order)
           THEN /\ pc' = "idle"
                /\ UNCHANGED cs
           ELSE /\ cs' = [cs EXCEPT
                             !.subnet_name =
                                 JoinName(config.core.PROJECT_NAME,
                                          config.core.environment,
                                          ZoneText(order[cs.i + 1].name),
                                          args.public, order[cs.i + 1].offset,
                                          args.count, cs.i),
                             !.shortened = NotShortened]
                /\ pc' = "cs_shorten"
    /\ UNCHANGED <<config, args, cloud, new_vpc, todo, igw_caller,
                   internet_gateway, route_table, subnet, loop, fault, raised,
                   log, invocations, calc>>

\* while len(subnet_name) > 37: one test of the condition and, when it
\* holds, one pass of the body, which applies the first rule not applied
\* yet and continues, or breaks when there is none
ShortenSubnetName ==
    /\ pc = "cs_shorten"
    /\ LET st == ShortenStep([subnet_name |-> cs.subnet_name,
                              shortened |-> cs.shortened, running |-> TRUE],
                             config.core.environment, args.public)
       IN  /\ cs' = [cs EXCEPT !.subnet_name = st.subnet_name,
                               !.shortened = st.shortened]
           /\ pc' = IF st.running THEN "cs_shorten" ELSE "cs_block"
    /\ UNCHANGED <<config, args, cloud, new_vpc, todo, igw_caller,
                   internet_gateway, route_table, subnet, loop, fault, raised,
                   log, invocations, calc>>

\* subnet_network_ip = (network_ip | (num_subnets+i << 32-subnet_netmask)),
\* which raises ValueError on a negative shift count; subnet_cidr_block;
\* subnet = create_subnet(vpc, zone, subnet_cidr_block, subnet_name,
\* route_table)
CallCreateSubnet ==
    /\ pc = "cs_block"
    /\ LET order == sorted(Repeat(cs.zones, args.count))
           ip    == subnet_network_ip(get_cidr_block_components(new_vpc.cidr_block).network_ip,
                                      cs.num_subnets, cs.i, cs.subnet_netmask)
           block == subnet_cidr_block(ip, cs.subnet_netmask)
       IN  IF 32 - cs.subnet_netmask < 0
           THEN /\ Raise(Exc("ValueError", 0, ""))
                /\ UNCHANGED <<cs, subnet>>
           ELSE /\ cs' = [cs EXCEPT !.assigned = Append(@, block)]
                /\ subnet' = [id |-> 0, zone |-> order[cs.i + 1].name,
                              cidr_block |-> block,
                              subnet_name |-> cs.subnet_name, public |-> FALSE]
                /\ pc' = "sn_create"
                /\ UNCHANGED <<raised, loop>>
    /\ UNCHANGED <<config, args, cloud, new_vpc, todo, igw_caller,
                   internet_gateway, route_table, fault, log, invocations, calc>>

(***************************************************************************)
(* create_subnet                                                           *)
(***************************************************************************)
\* The leading n bits of an address (its bits from position 32-n upwards).
Prefix(ip, n) ==
    {b \in ip : b >= 32 - n}

\* Two blocks share an address.
Overlap(x, y) ==
    LET n == IF x.netmask <= y.netmask THEN x.netmask ELSE y.netmask
    IN  Prefix(get_cidr_block_components(x).network_ip, n)
          = Prefix(get_cidr_block_components(y).network_ip, n)

\* Block x lies inside block y.
Inside(x, y) ==
    /\ x.netmask >= y.netmask
    /\ x.netmask <= 32
    /\ \A k \in 1..4 : x.octets[k] \in 0..255
    /\ Overlap(x, y)

SubnetLimitExceeded ==
    Err(400, "SubnetLimitExceeded")

\* What vpc_connection.create_subnet may answer.
SubnetResponses(block) ==
    LET \* the provider takes a subnet only inside the VPC's block and clear
        \* of the subnets the VPC has
        Acceptable ==
            /\ Inside(block, config.cidr_block)
            /\ \A k \in 1..Len(cloud.subnets) :
                   ~Overlap(block, cloud.subnets[k].cidr_block)
    IN
    (IF Acceptable THEN {Ok} ELSE {})
      \cup {SubnetLimitExceeded, Err(400, "InvalidSubnet.Conflict"), Unauthorized}

\* create_subnet going from the creation straight to the tagging loop.
CreateSubnetThenTag ==
    /\ pc = "sn_create"
    /\ \E r \in SubnetResponses(subnet.cidr_block) :
         IF r = Ok
         THEN /\ cloud' = [cloud EXCEPT !.subnets =
                               Append(@, [cidr_block |-> subnet.cidr_block,
                                          zone |-> subnet.zone,
                                          route_table |-> 0,
                                          associate_requested |-> FALSE])]
              /\ subnet' = [subnet EXCEPT !.id = Len(cloud.subnets) + 1]
              /\ pc' = "sn_tag"
              /\ UNCHANGED <<fault, log>>
         ELSE /\ log' = IF r.status = 400 THEN log \cup {"create_subnet"} ELSE log
              /\ fault' = r
              /\ pc' = IF r.status = 400 /\ r.code = "SubnetLimitExceeded"
                       THEN "sn_quota" ELSE "sn_associate"
              /\ UNCHANGED <<cloud, subnet>>
    /\ UNCHANGED <<config, args, new_vpc, todo, igw_caller, internet_gateway,
                   route_table, cs, loop, raised, invocations, calc>>

\* try: subnet = vpc_connection.create_subnet(...) except BotoServerError:
\* a status of 400 is logged, SubnetLimitExceeded goes on to sys.exit(1),
\* and any other error leaves subnet unbound
CreateSubnet ==
    /\ pc = "sn_create"
    /\ \E r \in SubnetResponses(subnet.cidr_block) :
         IF r = Ok
         THEN /\ cloud' = [cloud EXCEPT !.subnets =
                               Append(@, [cidr_block |-> subnet.cidr_block,
                                          zone |-> subnet.zone,
                                          route_table |-> 0,
                                          associate_requested |-> FALSE])]
              /\ subnet' = [subnet EXCEPT !.id = Len(cloud.subnets) + 1]
              /\ pc' = "sn_associate"
              /\ UNCHANGED <<fault, log>>
         ELSE /\ log' = IF r.status = 400 THEN log \cup {"create_subnet"} ELSE log
              /\ fault' = r
              /\ pc' = IF r.status = 400 /\ r.code = "SubnetLimitExceeded"
                       THEN "sn_quota" ELSE "sn_associate"
              /\ UNCHANGED <<cloud, subnet>>
    /\ UNCHANGED <<config, args, new_vpc, todo, igw_caller, internet_gateway,
                   route_table, cs, loop, raised, invocations, calc>>

\* A quota handler that logs and returns to create_subnets, which goes on
\* with the next subnet.
SubnetLimitSkipped ==
    /\ pc = "sn_quota"
    /\ pc' = "cs_loop"
    /\ cs' = [cs EXCEPT !.i = @ + 1]
    /\ log' = log \cup {"subnet_limit"}
    /\ UNCHANGED <<config, args, cloud, new_vpc, todo, igw_caller, internet_gateway,
                   route_table, subnet, loop, fault, raised, invocations, calc>>

\* num_subnets = len(get_all_subnets(...)); logging.error(...); sys.exit(1)
SubnetLimitExit ==
    /\ pc = "sn_quota"
    /\ \E r \in CallResponses :
         IF r = Ok
         THEN /\ pc' = "exited"
              /\ raised' = Exc("SystemExit", 1, "")
              /\ log' = log \cup {"subnet_limit"}
              /\ UNCHANGED <<fault, loop>>
         ELSE /\ Propagate(r)
              /\ UNCHANGED log
    /\ UNCHANGED <<config, args, cloud, new_vpc, todo, igw_caller,
                   internet_gateway, route_table, cs, subnet, invocations, calc>>

\* What associate_route_table may answer when it raises nothing: whether
\* the provider has associated the subnet, and the association id, which is
\* empty when the provider has not associated it and may be empty when it
\* has.  The provider gives an empty id at most once in a run, which the
\* log shows, and for one of the first MaxEmptyIdSubnet subnets (the model's
\* bounds on this answer).
AssociationResponses ==
    IF "not_associated" \in log \/ subnet.id > MaxEmptyIdSubnet
    THEN {[associated |-> TRUE, association_id |-> "rtbassoc"]}
    ELSE {[associated |-> TRUE, association_id |-> "rtbassoc"],
          [associated |-> TRUE, association_id |-> ""],
          [associated |-> FALSE, association_id |-> ""]}

\* if route_table: association_id = associate_route_table(route_table.id,
\* subnet.id); an empty association id is logged as an error and a
\* non-empty one is not; public = [the routes of route_table to a gateway]
AssociateRouteTable ==
    /\ pc = "sn_associate"
    /\ IF subnet.id = 0
       THEN /\ Raise(Exc("UnboundLocalError", 0, ""))
            /\ UNCHANGED <<cloud, subnet, fault, log>>
       ELSE \/ \E r \in AssociationResponses :
                 /\ cloud' = [cloud EXCEPT !.subnets[subnet.id] =
                                 [@ EXCEPT !.associate_requested = TRUE,
                                           !.route_table = IF r.associated THEN route_table.id ELSE @]]
                 /\ log' = IF r.association_id = ""
                           THEN log \cup {"not_associated"} ELSE log
                 /\ subnet' = [subnet EXCEPT !.public = route_table.igw_route]
                 /\ pc' = "sn_tag"
                 /\ loop' = NoLoop
                 /\ UNCHANGED <<fault, raised>>
            \/ /\ Propagate(Unauthorized)
               /\ cloud' = [cloud EXCEPT !.subnets[subnet.id].associate_requested = TRUE]
               /\ UNCHANGED <<subnet, log>>
    /\ UNCHANGED <<config, args, new_vpc, todo, igw_caller, internet_gateway,
                   route_table, cs, invocations, calc>>

\* The tagging loop of create_subnet; return subnet, and in create_subnets
\* if subnet: subnets.append(subnet)
TagSubnet ==
    \/ RetryLoop("sn_tag")
    \/ /\ Tagged("sn_tag")
       /\ cs' = [cs EXCEPT !.subnets = Append(@, subnet.id), !.i = @ + 1]
       /\ pc' = "cs_loop"
       /\ loop' = NoLoop
       /\ UNCHANGED <<config, args, cloud, new_vpc, todo, igw_caller,
                      internet_gateway, route_table, subnet, fault, raised,
                      log, invocations, calc>>

(***************************************************************************)
(* create_ec2_instances and create_security_group                          *)
(***************************************************************************)
\* for subnet in subnets: the loop of create_ec2_instances starts
ForSubnets ==
    /\ todo' = cs.subnets
    /\ pc' = IF cs.subnets # <<>> THEN "ec_run" ELSE "done"

\* security_groups = [create_security_group(vpc, ...)]: the provider calls
\* create_security_group, revoke_security_group_egress and, for the rules
\* create_ec2_instances passes, authorize and
\* authorize_security_group_egress, none of them in a try block, so the
\* first error leaves create_ec2_instances.  The group is read back by no
\* function of the three modules and is no part of cloud.
CreateSecurityGroup ==
    /\ pc = "sg_create"
    /\ \E r \in CallResponses :
         IF r = Ok
         THEN /\ ForSubnets
              /\ UNCHANGED <<fault, raised, loop>>
         ELSE /\ Propagate(r)
              /\ UNCHANGED todo
    /\ UNCHANGED <<config, args, cloud, new_vpc, igw_caller, internet_gateway,
                   route_table, cs, subnet, log, invocations, calc>>

(***************************************************************************)
(* create_ec2_instance                                                     *)
(***************************************************************************)
\* reservation = ec2_connection.run_instances(...)
RunInstances ==
    /\ pc = "ec_run"
    /\ \E r \in CallResponses :
         IF r = Ok
         THEN /\ cloud' = [cloud EXCEPT !.instances = @ + 1]
              /\ pc' = "ec_tag_instances"
              /\ loop' = NoLoop
              /\ UNCHANGED <<fault, raised>>
         ELSE /\ Propagate(r)
              /\ UNCHANGED cloud
    /\ UNCHANGED <<config, args, new_vpc, todo, igw_caller, internet_gateway,
                   route_table, cs, subnet, log, invocations, calc>>

\* What follows a loop of create_ec2_instance that has ended.
Proceed(l, after) ==
    /\ Tagged(l)
    /\ pc' = after
    /\ loop' = NoLoop
    /\ UNCHANGED <<config, args, cloud, new_vpc, todo, igw_caller,
                   internet_gateway, route_table, cs, subnet, fault, raised,
                   log, invocations, calc>>

TagInstances ==
    \/ RetryLoop("ec_tag_instances")
    \/ Proceed("ec_tag_instances", "ec_get_enis")

\* while not interfaces: try: interfaces = get_all_network_interfaces(...)
GetNetworkInterfaces ==
    \/ RetryLoop("ec_get_enis")
    \/ Proceed("ec_get_enis", "ec_tag_eni")

\* The tagging loop of the network interface, and return instances; the
\* for loop of create_ec2_instances goes on with the next subnet, and
\* after the last one return instances
TagNetworkInterface ==
    \/ RetryLoop("ec_tag_eni")
    \/ /\ Tagged("ec_tag_eni")
       /\ todo' = Tail(todo)
       /\ pc' = IF Len(todo) > 1 THEN "ec_run" ELSE "done"
       /\ loop' = NoLoop
       /\ UNCHANGED <<config, args, cloud, new_vpc, igw_caller, internet_gateway,
                      route_table, cs, subnet, fault, raised, log, invocations, calc>>

(***************************************************************************)
(* The caller: create_vpc, then create_subnets up to MaxInvocations times  *)
(* with the same arguments (the run is repeated), then it may launch       *)
(* instances in the subnets the last invocation returned.                  *)
(***************************************************************************)
CallCreateSubnets ==
    /\ pc = "idle"
    /\ invocations < MaxInvocations
    /\ \E a \in SubnetArgs :
         /\ invocations > 0 => a = args
         /\ args' = a
    /\ invocations' = invocations + 1
    /\ UNCHANGED calc
    /\ cs' = NoLocals
    /\ subnet' = NoSubnet
    /\ route_table' = NoRouteTable
    /\ pc' = "cs_query"
    /\ UNCHANGED <<config, cloud, new_vpc, todo, igw_caller, internet_gateway,
                   loop, fault, raised, log>>

\* create_ec2_instances(vpc, subnets, security_groups) with the subnets
\* create_subnets returned: if not security_groups: security_groups =
\* [create_security_group(vpc, ...)]; for subnet in subnets: ...
CallCreateEc2Instances ==
    /\ pc = "idle"
    /\ \E security_groups \in BOOLEAN :
         IF security_groups
         THEN ForSubnets
         ELSE /\ pc' = "sg_create"
              /\ UNCHANGED todo
    /\ UNCHANGED <<config, args, cloud, new_vpc, igw_caller, internet_gateway,
                   route_table, cs, subnet, loop, fault, raised, log,
                   invocations, calc>>

\* create_ec2_instance(subnet, security_groups) with the first of the
\* subnets create_subnets returned; with security_groups left at None the
\* list comprehension over it raises TypeError before any provider call
CallCreateEc2Instance ==
    /\ pc = "idle"
    /\ cs.subnets # <<>>
    /\ \E security_groups \in BOOLEAN :
         IF security_groups
         THEN /\ todo' = <<Head(cs.subnets)>>
              /\ pc' = "ec_run"
              /\ UNCHANGED <<raised, loop>>
         ELSE /\ Raise(Exc("TypeError", 0, ""))
              /\ UNCHANGED todo
    /\ UNCHANGED <<config, args, cloud, new_vpc, igw_caller, internet_gateway,
                   route_table, cs, subnet, fault, log, invocations, calc>>

\* The steps of the functions once they are called.
Steps ==
    \/ CreateVpc
    \/ TagVpc
    \/ GetRouteTables
    \/ TagMainRouteTable
    \/ GetNetworkAcls
    \/ TagNetworkAcl
    \/ GetDhcpOptions
    \/ TagDhcpOptions
    \/ CreateVpcReturn
    \/ CreateInternetGateway
    \/ TagInternetGateway
    \/ GetVpcName
    \/ AttachInternetGateway
    \/ CreateRouteTable
    \/ GetInternetGateways
    \/ CreateRoute
    \/ RefreshRouteTable
    \/ NameRouteTable
    \/ TagRouteTable
    \/ QuerySubnets
    \/ NextSubnet
    \/ ShortenSubnetName
    \/ CallCreateSubnet
    \/ CreateSubnet
    \/ SubnetLimitExit
    \/ AssociateRouteTable
    \/ TagSubnet
    \/ CreateSecurityGroup
    \/ RunInstances
    \/ TagInstances
    \/ GetNetworkInterfaces
    \/ TagNetworkInterface

\* The caller's calls, and the steps of the functions it has called.
Next ==
    \/ CallCreateSubnets
    \/ CallCreateEc2Instances
    \/ CallCreateEc2Instance
    \/ Steps

Spec ==
    Init /\ [][Next]_vars

(***************************************************************************)
(* create_subnets on its own: the VPC exists and is tagged, as create_vpc  *)
(* leaves it, and create_subnets is invoked with larger counts on VPCs     *)
(* with little room (the netmasks validate_cidr_block lets through end at  *)
(* 28).                                                                    *)
(***************************************************************************)
\* The largest count of a create_subnets invocation of PlanSpec.
LargeCount == 11

PlanBlocks ==
    {Cidr(10, 0, 0, 0, 24), Cidr(10, 0, 0, 0, 28)}

PlanArgs ==
    [zones : ZoneLists, count : {1, LargeCount}, byte_aligned : BOOLEAN,
     balanced : BOOLEAN, public : BOOLEAN]

\* The provider after create_vpc(cidr_block) has returned.
VpcCloud ==
    [EmptyCloud EXCEPT !.vpcs = 1,
                       !.route_tables = <<[main |-> TRUE, igw_route |-> FALSE]>>,
                       !.acls = 1,
                       !.dopts = 1,
                       !.tags = {[id |-> <<"vpc", 1>>, type |-> ""],
                                 [id |-> <<"rtb", 1>>, type |-> "main"],
                                 [id |-> <<"acl", 1>>, type |-> ""],
                                 [id |-> <<"dopt", 1>>, type |-> ""]}]

PlanInit ==
    /\ pc = "idle"
    /\ config \in [cidr_block : PlanBlocks, internet_connected : {FALSE},
                    core : {s \in CoreSettings : s.environment = ProdWord}]
    /\ args = NoArgs
    /\ cloud = VpcCloud
    /\ new_vpc = [id |-> 1, cidr_block |-> config.cidr_block]
    /\ todo = <<>>
    /\ igw_caller = "none"
    /\ internet_gateway = 0
    /\ route_table = NoRouteTable
    /\ cs = NoLocals
    /\ subnet = NoSubnet
    /\ loop = NoLoop
    /\ fault = None
    /\ raised = None
    /\ log = {}
    /\ invocations = 0
    /\ calc = NoCalc

\* subnets = create_subnets(vpc, zones, count, byte_aligned, balanced, public)
PlanCreateSubnets ==
    /\ pc = "idle"
    /\ invocations = 0
    /\ \E a \in PlanArgs : args' = a
    /\ invocations' = 1
    /\ UNCHANGED calc
    /\ cs' = NoLocals
    /\ subnet' = NoSubnet
    /\ route_table' = NoRouteTable
    /\ pc' = "cs_query"
    /\ UNCHANGED <<config, cloud, new_vpc, todo, igw_caller, internet_gateway,
                   loop, fault, raised, log>>

PlanNext ==
    \/ PlanCreateSubnets
    \/ QuerySubnets
    \/ CreateRouteTable
    \/ GetInternetGateways
    \/ CreateInternetGateway
    \/ TagInternetGateway
    \/ GetVpcName
    \/ AttachInternetGateway
    \/ CreateRoute
    \/ RefreshRouteTable
    \/ NameRouteTable
    \/ TagRouteTable
    \/ NextSubnet
    \/ ShortenSubnetName
    \/ CallCreateSubnet
    \/ CreateSubnet
    \/ SubnetLimitExit
    \/ AssociateRouteTable
    \/ TagSubnet

PlanSpec ==
    PlanInit /\ [][PlanNext]_vars

(***************************************************************************)
(* The functions of the module called on their own: calc holds the         *)
(* function, its arguments and, once it has returned, its result.          *)
(***************************************************************************)
CapacityCalls ==
    [fn : {"get_network_capacity"}, netmask : 1..32, out : {0}, done : {FALSE}]

Calling(fn) ==
    /\ pc = "calc"
    /\ calc.fn = fn
    /\ ~calc.done

Return(out) ==
    /\ calc' = [calc EXCEPT !.out = out, !.done = TRUE]
    /\ UNCHANGED <<pc, config, args, cloud, new_vpc, todo, igw_caller,
                   internet_gateway, route_table, cs, subnet, loop, fault,
                   raised, log, invocations>>

GetNetworkCapacity ==
    /\ Calling("get_network_capacity")
    /\ Return(get_network_capacity(calc.netmask))

\* core.PROJECT_NAME
Projects ==
    {<<"s", "k", "y">>,
     <<"A", "c", "m", "e">>,
     <<"p", "u", "b", "l", "i", "c", "-", "a", "p", "i">>,
     <<"d", "j", "a", "n", "g", "o", "-", "s", "k", "y", "c", "a", "n", "v", "a", "s">>}

\* core.args.environment
Environments ==
    {<<"d", "e", "v">>,
     <<"p", "r", "o", "d">>,
     <<"S", "t", "a", "g", "i", "n", "g">>,
     <<"p", "r", "o", "d", "u", "c", "t", "i", "o", "n">>}

\* zone.offset: the subnets of the type the zone already has
Offsets ==
    {0, 8, 9}

ZonesWithOffsets ==
    UNION {{[k \in 1..Len(zl) |-> [name |-> zl[k], offset |-> o[k]]] :
               o \in [1..Len(zl) -> Offsets]} : zl \in ZoneLists}

\* The names of one invocation of create_subnets.
NameCalls ==
    [fn : {"subnet_names"}, project : Projects, environment : Environments,
     zones : ZonesWithOffsets, count : 1..MaxCount, public : BOOLEAN,
     out : {<<>>}, done : {FALSE}]

SubnetNames ==
    /\ Calling("subnet_names")
    /\ LET order == sorted(Repeat(calc.zones, calc.count))
       IN  Return([i \in 1..Len(order) |->
                      subnet_name(calc.project, calc.environment,
                                  ZoneText(order[i].name), calc.public,
                                  order[i].offset, calc.count, i - 1)])

\* The shortening loop of one name, one evaluation of its condition at a
\* time.
ShortenCalls ==
    {[fn |-> "shorten", environment |-> e, public |-> b,
      subnet_name |-> JoinName(p, e, ZoneText(z), b, o, c, i),
      shortened |-> NotShortened, running |-> TRUE, done |-> FALSE] :
        p \in Projects, e \in Environments, z \in {"us-east-1c"},
        b \in BOOLEAN, o \in Offsets, c \in {MaxCount}, i \in {0}}

ShortenName ==
    /\ Calling("shorten")
    /\ LET st == ShortenStep([subnet_name |-> calc.subnet_name,
                              shortened |-> calc.shortened,
                              running |-> calc.running],
                             calc.environment, calc.public)
       IN  calc' = [calc EXCEPT !.subnet_name = st.subnet_name,
                                !.shortened = st.shortened,
                                !.running = st.running,
                                !.done = ~st.running]
    /\ UNCHANGED <<pc, config, args, cloud, new_vpc, todo, igw_caller,
                   internet_gateway, route_table, cs, subnet, loop, fault,
                   raised, log, invocations>>

\* The netmask of the subnets and the block of the first of them (no block
\* where the shift count 32-subnet_netmask is negative).
NetmaskCalls ==
    [fn : {"subnet_netmask"}, cidr_block : {Cidr(10, 0, 0, 0, n) : n \in 8..30},
     num_subnets : {0, 2, 13}, nzones : 1..3, count : 1..MaxCount,
     balanced : BOOLEAN, byte_aligned : BOOLEAN,
     out : {[subnet_netmask |-> 0, cidr_block |-> Cidr(0, 0, 0, 0, 0)]},
     done : {FALSE}]

SubnetNetmask ==
    /\ Calling("subnet_netmask")
    /\ LET parent == get_cidr_block_components(calc.cidr_block)
           snm    == subnet_netmask(parent.netmask, calc.num_subnets, calc.nzones,
                                    calc.count, calc.balanced, calc.byte_aligned)
       IN  Return([subnet_netmask |-> snm,
                   cidr_block |->
                       IF 32 - snm < 0 THEN Cidr(0, 0, 0, 0, 0)
                       ELSE subnet_cidr_block(
                                subnet_network_ip(parent.network_ip,
                                                  calc.num_subnets, 0, snm),
                                snm)])

\* Parent blocks with all host bits zero.
AlignedBlocks ==
    {Cidr(10, 0, 0, 0, 16), Cidr(172, 31, 240, 0, 20),
     Cidr(10, 0, 7, 0, 24), Cidr(192, 168, 1, 224, 28)}

\* The blocks of two places of the loop at one netmask.
BlockCalls ==
    {[fn |-> "subnet_cidr_block", cidr_block |-> b, subnet_netmask |-> n,
      num_subnets |-> m, i |-> i, j |-> j, out |-> <<>>, done |-> FALSE] :
        b \in AlignedBlocks, n \in 16..32, m \in {0, 1},
        i \in {0, 1, 2, 3, 7, 8, 15, 16, 255},
        j \in {0, 1, 2, 3, 7, 8, 15, 16, 255}}

SubnetCidrBlocks ==
    /\ Calling("subnet_cidr_block")
    /\ LET parent == get_cidr_block_components(calc.cidr_block)
           block(i) == subnet_cidr_block(
                           subnet_network_ip(parent.network_ip, calc.num_subnets,
                                             i, calc.subnet_netmask),
                           calc.subnet_netmask)
       IN  Return(<<block(calc.i), block(calc.j)>>)

\* What the loop of create_subnets hands to create_subnet at each place of
\* the sorted list: the zone, the block and the name (netmasks up to 32).
Plan(cidr_block, zones, num_subnets, count, balanced, byte_aligned, public, project, environment) ==
    LET parent == get_cidr_block_components(cidr_block)
        snm    == subnet_netmask(parent.netmask, num_subnets, Len(zones), count,
                                 balanced, byte_aligned)
        order  == sorted(Repeat(zones, count))
    IN  [i \in 1..Len(order) |->
            [zone |-> order[i].name,
             cidr_block |-> subnet_cidr_block(
                                subnet_network_ip(parent.network_ip, num_subnets,
                                                  i - 1, snm),
                                snm),
             name |-> subnet_name(project, environment, ZoneText(order[i].name),
                                  public, order[i].offset, count, i - 1)]]

\* The orders a list of n zones can be supplied in.
Orders(n) ==
    {f \in [1..n -> 1..n] : \A i, j \in 1..n : i # j => f[i] # f[j]}

\* A list of zones and the same zones in another order.
Reordered ==
    UNION {{[zones |-> [k \in 1..Len(zl) |-> [name |-> zl[k], offset |-> o[k]]],
             permuted |-> [k \in 1..Len(zl) |->
                              [name |-> zl[f[k]], offset |-> o[f[k]]]]] :
               o \in [1..Len(zl) -> {0, 9}], f \in Orders(Len(zl))} :
           zl \in ZoneLists}

\* create_subnets planned for a list of zones and for the same zones in
\* another order, everything else the same.
PlanCalls ==
    {[fn |-> "plan", cidr_block |-> b, zones |-> z.zones, permuted |-> z.permuted,
      num_subnets |-> n, count |-> c, balanced |-> bal, byte_aligned |-> al,
      public |-> pub, project |-> p, environment |-> <<"p", "r", "o", "d">>,
      out |-> <<>>, done |-> FALSE] :
        b \in {Cidr(10, 0, 0, 0, 16), Cidr(10, 0, 0, 0, 24)}, z \in Reordered,
        n \in {0, 2}, c \in 1..MaxCount, bal \in BOOLEAN, al \in BOOLEAN,
        pub \in BOOLEAN,
        p \in {<<"s", "k", "y">>,
               <<"d", "j", "a", "n", "g", "o", "-", "s", "k", "y", "c", "a", "n", "v", "a", "s">>}}

PlanTwice ==
    /\ Calling("plan")
    /\ Return(<<Plan(calc.cidr_block, calc.zones, calc.num_subnets, calc.count,
                     calc.balanced, calc.byte_aligned, calc.public, calc.project,
                     calc.environment),
                Plan(calc.cidr_block, calc.permuted, calc.num_subnets, calc.count,
                     calc.balanced, calc.byte_aligned, calc.public, calc.project,
                     calc.environment)>>)

\* The shortening loop run on a name, and run again on what it returned.
ShortenTwiceCalls ==
    {[fn |-> "shorten_twice", environment |-> c.environment, public |-> c.public,
      subnet_name |-> c.subnet_name, out |-> <<>>, done |-> FALSE] :
        c \in ShortenCalls}

ShortenTwice ==
    /\ Calling("shorten_twice")
    /\ LET first == Shorten([subnet_name |-> calc.subnet_name,
                             shortened |-> NotShortened, running |-> TRUE],
                            calc.environment, calc.public)
           again == Shorten([subnet_name |-> first,
                             shortened |-> NotShortened, running |-> TRUE],
                            calc.environment, calc.public)
       IN  Return(<<first, again>>)

\* The addresses validate_cidr_block is called with: numbers between dots,
\* four of them or not.
Addresses ==
    {<<a, b, c, d>> : a \in {10, 11, 172, 192}, b \in {0, 15, 16, 31, 32, 168},
                      c \in {0, 64, 128, 255, 256}, d \in {0}}
      \cup {<<10, 0, 0>>, <<10, 0, 0, 0, 0>>}

\* The prefixes it is called with.
Prefixes ==
    {-1, 0, 7, 8, 12, 15, 16, 20, 28, 29, 32, 33}

\* The shapes of the argument: the block a.b.c.d/n, the address without
\* '/' and prefix, a word or nothing in the place of the prefix, and a
\* second '/' after the prefix.
Forms ==
    {"block", "no_slash", "word_prefix", "empty_prefix", "two_slashes"}

\* The argument as a string.
CidrText(octets, form, prefix) ==
    LET address == join(<<".">>, [k \in 1..Len(octets) |-> str(octets[k])])
    IN  CASE form = "block"        -> address \o <<"/">> \o str_int(prefix)
          [] form = "no_slash"     -> address
          [] form = "word_prefix"  -> address \o <<"/", "x">>
          [] form = "empty_prefix" -> address \o <<"/">>
          [] form = "two_slashes"  -> address \o <<"/">> \o str_int(prefix)
                                              \o <<"/", "0">>

ValidateCalls ==
    {[fn |-> "validate_cidr_block", octets |-> o, form |-> f, prefix |-> n,
      cidr_block |-> CidrText(o, f, n), out |-> Returns("none"), done |-> FALSE] :
        o \in Addresses, f \in Forms, n \in Prefixes}

ValidateCidrBlock ==
    /\ Calling("validate_cidr_block")
    /\ calc' = [calc EXCEPT !.out = validate_cidr_block(calc.cidr_block),
                            !.done = TRUE]
    /\ log' = log \cup {validate_cidr_block_errors(calc.cidr_block)[k] :
                            k \in 1..Len(validate_cidr_block_errors(calc.cidr_block))}
    /\ UNCHANGED <<pc, config, args, cloud, new_vpc, todo, igw_caller,
                   internet_gateway, route_table, cs, subnet, loop, fault,
                   raised, invocations>>

CalcInit ==
    /\ pc = "calc"
    /\ config \in [cidr_block : CidrBlocks, internet_connected : {FALSE},
                    core : {s \in CoreSettings : s.environment = ProdWord}]
    /\ args = NoArgs
    /\ cloud = EmptyCloud
    /\ new_vpc = NoVpc
    /\ todo = <<>>
    /\ igw_caller = "none"
    /\ internet_gateway = 0
    /\ route_table = NoRouteTable
    /\ cs = NoLocals
    /\ subnet = NoSubnet
    /\ loop = NoLoop
    /\ fault = None
    /\ raised = None
    /\ log = {}
    /\ invocations = 0
    /\ \/ calc \in CapacityCalls
       \/ calc \in NameCalls
       \/ calc \in ShortenCalls
       \/ calc \in NetmaskCalls
       \/ calc \in BlockCalls
       \/ calc \in PlanCalls
       \/ calc \in ShortenTwiceCalls
       \/ calc \in ValidateCalls

CalcNext ==
    \/ GetNetworkCapacity
    \/ SubnetNames
    \/ ShortenName
    \/ SubnetNetmask
    \/ SubnetCidrBlocks
    \/ PlanTwice
    \/ ShortenTwice
    \/ ValidateCidrBlock

CalcSpec ==
    CalcInit /\ [][CalcNext]_vars

\* The shortening loop: on its own, for names of every shape, and within
\* the invocations of create_subnets on a VPC as create_vpc leaves it, whose
\* subnets are created and tagged under the names the loop leaves.  Python
\* executes the loop without suspending it, so a step of the loop that can
\* be taken is taken.
ShortenInit ==
    /\ \/ /\ pc = "calc"
          /\ calc \in ShortenCalls
          /\ config \in [cidr_block : CidrBlocks, internet_connected : {FALSE},
                          core : {s \in CoreSettings : s.environment = ProdWord}]
          /\ args = NoArgs
          /\ cloud = EmptyCloud
          /\ new_vpc = NoVpc
          /\ invocations = 0
       \/ /\ pc = "cs_query"
          /\ calc = NoCalc
          /\ config \in [cidr_block : CidrBlocks, internet_connected : {FALSE},
                          core : CoreSettings]
          /\ args \in [zones : ZoneLists, count : 1..MaxCount,
                        byte_aligned : {FALSE}, balanced : {FALSE},
                        public : BOOLEAN]
          /\ cloud = VpcCloud
          /\ new_vpc = [id |-> 1, cidr_block |-> config.cidr_block]
          /\ invocations = 1
    /\ todo = <<>>
    /\ igw_caller = "none"
    /\ internet_gateway = 0
    /\ route_table = NoRouteTable
    /\ cs = NoLocals
    /\ subnet = NoSubnet
    /\ loop = NoLoop
    /\ fault = None
    /\ raised = None
    /\ log = {}

ShortenNext ==
    \/ ShortenName
    \/ QuerySubnets
    \/ CreateRouteTable
    \/ GetInternetGateways
    \/ CreateInternetGateway
    \/ TagInternetGateway
    \/ GetVpcName
    \/ AttachInternetGateway
    \/ CreateRoute
    \/ RefreshRouteTable
    \/ NameRouteTable
    \/ TagRouteTable
    \/ NextSubnet
    \/ ShortenSubnetName
    \/ CallCreateSubnet
    \/ CreateSubnet
    \/ SubnetLimitExit
    \/ AssociateRouteTable
    \/ TagSubnet

ShortenSpec ==
    /\ ShortenInit
    /\ [][ShortenNext]_vars
    /\ WF_vars(ShortenName)
    /\ WF_vars(ShortenSubnetName)

\* The program is sequential and nothing suspends it: while a function
\* that was called has a step to take, a step is taken.  Whether the
\* caller goes on to call create_subnets or to launch instances is its own
\* choice, and no fairness is asked of it.
FairSpec ==
    Spec /\ WF_vars(Steps)

(***************************************************************************)
(* Properties.                                                             *)
(***************************************************************************)
\* The invocation of create_subnets in progress has computed its netmask.
Planned ==
    cs.zones # <<>>

\* The smallest k with 2^k >= n.
CeilLog2(n) ==
    CHOOSE k \in 0..31 : Pow2(k) >= n /\ \A j \in 0..(k - 1) : Pow2(j) < n

\* C1: the blocks one invocation of create_subnets assigns are pairwise
\* disjoint and each lies inside the block of the VPC.
C1_BlocksDisjointInsideParent ==
    \A j \in 1..Len(cs.assigned) :
        /\ Inside(cs.assigned[j], new_vpc.cidr_block)
        /\ \A k \in 1..Len(cs.assigned) :
               k # j => ~Overlap(cs.assigned[j], cs.assigned[k])

\* C2: before any sizing policy the netmask of the subnets is the parent's
\* plus the smallest k with 2^k >= existing subnets + len(zones)*count, and
\* with no policy flag it is the netmask of the blocks assigned.
C2_MinimumNetmaskIsCeilLog2 ==
    Planned =>
        LET total   == cs.num_subnets + Len(cs.zones) * args.count
            netmask == new_vpc.cidr_block.netmask
        IN  /\ minimum_netmask(netmask, cs.num_subnets, Len(cs.zones), args.count)
                 = netmask + CeilLog2(total)
            /\ (~args.balanced /\ ~args.byte_aligned) =>
                   /\ cs.subnet_netmask = netmask + CeilLog2(total)
                   /\ \A j \in 1..Len(cs.assigned) :
                          cs.assigned[j].netmask = netmask + CeilLog2(total)

\* C3: no block an invocation assigns overlaps a subnet that an earlier
\* invocation created (the num_subnets subnets it counted as existing).
C3_NoOverlapAcrossInvocations ==
    \A j \in 1..Len(cs.assigned) :
        \A k \in 1..cs.num_subnets :
            ~Overlap(cs.assigned[j], cloud.subnets[k].cidr_block)

\* C4: every retry loop is bounded: its call fails with the loop's
\* not-yet-visible error only finitely often, after which the loop is left.
TransientFailure ==
    /\ pc \in Loops
    /\ IsError(loop.resp)
    /\ loop.resp.code = Whitelist(pc)

C4_RetryLoopBounded ==
    <>[]~TransientFailure

\* C5: in a retry loop whose call raised the loop's not-yet-visible error k
\* times (and never returned False) and then returned True, the call was
\* made exactly k+1 times; and a not-yet-visible error of the loop never
\* leaves it: the loop goes on and nothing is raised.
C5_CountWhenTagged ==
    \A l \in Loops :
        (Tagged(l) /\ Counted /\ loop.falses = 0)
            => loop.attempts = loop.transients + 1

C5_TransientStaysInside ==
    \A l \in Loops :
        (pc = l /\ IsError(loop.resp) /\ loop.resp.code = Whitelist(l))
            => (pc' = l /\ raised' = None /\ loop'.resp = None)

C5_TransientRetried ==
    []C5_CountWhenTagged /\ [][C5_TransientStaysInside]_vars

\* A loop ended with success after one not-yet-visible error: two calls.
C5_Witness ==
    /\ Tagged("sn_tag")
    /\ loop.transients = 1
    /\ loop.falses = 0
    /\ loop.attempts = 2

\* C6: in every retry loop an error whose code is not the loop's own
\* not-yet-visible code ends the loop at once: the next step raises, and
\* after it no step is taken.
C6_FatalStep ==
    /\ \A l \in Loops :
           (pc = l /\ IsError(loop.resp) /\ loop.resp.code # Whitelist(l))
               => (pc' = "raised" /\ raised' # None /\ cloud' = cloud)
    /\ pc # "raised"

C6_OtherErrorsEndLoop ==
    [][C6_FatalStep]_vars

\* The not-yet-visible code of the VPC loop ended a loop that passes on
\* InvalidID only.
C6_Witness ==
    /\ pc = "raised"
    /\ raised # None
    /\ raised.type = "TypeError"
    /\ fault = Err(400, "InvalidVpcID.NotFound")
    /\ Len(cloud.route_tables) > 1

\* C7: a provider error that is neither a loop's own not-yet-visible error
\* nor quota exhaustion is the exception the run ends with, and the run does
\* not go on past it.
Pending ==
    pc \in Loops /\ loop.resp = fault

C7_ErrorReachesCallerUnchanged ==
    (IsError(fault) /\ fault # SubnetLimitExceeded)
        => \/ Pending
           \/ pc = "raised" /\ raised = fault

\* C8 as claimed: with a gateway requested, no route table is tagged main
\* before the attach call of the gateway has been issued.
MainTagged(k) ==
    [id |-> <<"rtb", k>>, type |-> "main"] \in cloud.tags

VpcTagged ==
    [id |-> <<"vpc", 1>>, type |-> ""] \in cloud.tags

AttachRequested ==
    \E g \in 1..Len(cloud.gateways) : cloud.gateways[g].attach_requested

C8_GatewayBeforeMainTag ==
    (config.internet_connected /\ \E k \in 1..Len(cloud.route_tables) : MainTagged(k))
        => AttachRequested

\* C8 as the code has it: create network, tag network, tag every route
\* table of the network as main, and only then create and attach the
\* gateway.
C8_MainTagBeforeGateway ==
    (config.internet_connected /\ invocations = 0) =>
        /\ cloud.tags # {} => cloud.vpcs = 1
        /\ (\E k \in 1..Len(cloud.route_tables) : MainTagged(k)) => VpcTagged
        /\ cloud.gateways # <<>> =>
               /\ VpcTagged
               /\ \A k \in 1..Len(cloud.route_tables) : MainTagged(k)
        /\ AttachRequested => [id |-> <<"igw", 1>>, type |-> ""] \in cloud.tags

C8_Witness ==
    /\ config.internet_connected
    /\ invocations = 0
    /\ AttachRequested
    /\ MainTagged(1)

\* C9: a subnet the provider rejects for another reason than the quota does
\* not end the run: create_subnets goes on with the subnets that remain.
C9_RejectedSubnetSkipped ==
    fault = Err(400, "InvalidSubnet.Conflict") => pc # "raised"

\* C10: once create_subnet is refused for the quota, the run only counts the
\* subnets and exits with status 1: the provider's resources stay as they
\* are (nothing created, associated, tagged or deleted) and no step follows
\* the exit.
C10_QuotaState ==
    /\ fault = SubnetLimitExceeded => pc \in {"sn_quota", "exited"}
    /\ pc = "exited" => (raised = Exc("SystemExit", 1, "") /\ fault = SubnetLimitExceeded)

C10_QuotaStep ==
    /\ pc \in {"sn_quota", "exited"} => cloud' = cloud
    /\ pc # "exited"

C10_QuotaExitsAtOnce ==
    []C10_QuotaState /\ [][C10_QuotaStep]_vars

\* The quota was hit after an earlier subnet had been created.
C10_Witness ==
    /\ pc = "exited"
    /\ raised.status = 1
    /\ cloud.subnets # <<>>

\* C11: when the partition an invocation asks for does not fit in the block
\* of the VPC (a netmask above 32, or an index num_subnets+i that needs more
\* than subnet_netmask - netmask bits), the invocation creates no route
\* table and no subnet.
Fits ==
    /\ cs.subnet_netmask <= 32
    /\ cs.subnet_netmask >= new_vpc.cidr_block.netmask
    /\ \A i \in 0..(Len(cs.zones) * args.count - 1) :
           \A b \in BitsOf(cs.num_subnets + i) :
               b < cs.subnet_netmask - new_vpc.cidr_block.netmask

C11_NothingCreatedWhenUnfit ==
    (Planned /\ ~Fits)
        => /\ route_table = NoRouteTable
           /\ Len(cloud.subnets) = cs.num_subnets

\* C12: when the netmask of the subnets exceeds 32 after the sizing
\* policies, create_subnets assigns no block and does not return: its loop
\* raises (the ValueError of a negative shift count); and the provider never
\* holds a subnet with a netmask above 32.
C12_NoBlockState ==
    /\ (Planned /\ cs.subnet_netmask > 32)
           => /\ cs.assigned = <<>>
              /\ pc \notin {"idle", "sn_create", "sn_quota", "sn_associate",
                            "sn_tag", "exited"}
    /\ \A k \in 1..Len(cloud.subnets) : cloud.subnets[k].cidr_block.netmask <= 32

C12_NoBlockStep ==
    (pc \in {"cs_loop", "cs_shorten", "cs_block"} /\ cs.subnet_netmask > 32)
        => /\ cloud' = cloud
           /\ pc' \in {"cs_shorten", "cs_block", "raised"}
           /\ pc' = "raised" => raised' = Exc("ValueError", 0, "")
           /\ pc = "cs_block" => pc' = "raised"

C12_NoBlockAbove32 ==
    []C12_NoBlockState /\ [][C12_NoBlockStep]_vars

\* 3 zones with count 11 on a /28: netmask 28+5 = 33, and the loop raised.
C12_Witness ==
    /\ pc = "raised"
    /\ raised.type = "ValueError"
    /\ cs.subnet_netmask = 33
    /\ route_table.id # 0

\* C13: for a netmask p with 2^(32-p) >= 4, get_network_capacity(p) is
\* 2^(32-p) - 4, written 4 * (2^(30-p) - 1) to stay within the integers of
\* TLC; /24 gives 252 and /28 gives 12.
C13_CapacityIsPowerMinus4 ==
    (calc.fn = "get_network_capacity" /\ calc.done /\ calc.netmask <= 30)
        => calc.out = 4 * (Pow2(30 - calc.netmask) - 1)

\* The number a name ends with: the digits after its last '-'.
LastDash(name) ==
    CHOOSE k \in 1..Len(name) :
        name[k] = "-" /\ \A j \in (k + 1)..Len(name) : name[j] # "-"

RECURSIVE NumberOf(_)
NumberOf(digits) ==
    IF digits = <<>> THEN 0
    ELSE 10 * NumberOf(SubSeq(digits, 1, Len(digits) - 1))
         + (CHOOSE d \in 0..9 : Digits[d + 1] = digits[Len(digits)])

SuffixNumber(name) ==
    NumberOf(SubSeq(name, LastDash(name) + 1, Len(name)))

\* C14: within one invocation of create_subnets the names given to the
\* subnets, after shortening, are pairwise distinct, and the numbers at the
\* end of the names of one zone are offset+1 .. offset+count.
C14_NamesDistinct ==
    (calc.fn = "subnet_names" /\ calc.done) =>
        LET order == sorted(Repeat(calc.zones, calc.count))
        IN  /\ Len(calc.out) = Len(calc.zones) * calc.count
            /\ \A i, j \in 1..Len(calc.out) : i # j => calc.out[i] # calc.out[j]
            /\ \A k \in 1..Len(calc.zones) :
                   {SuffixNumber(calc.out[i]) :
                        i \in {j \in 1..Len(order) : order[j].name = calc.zones[k].name}}
                       = (calc.zones[k].offset + 1)..(calc.zones[k].offset + calc.count)

\* Several zones, several subnets in each, names long enough to be shortened.
C14_Witness ==
    /\ calc.fn = "subnet_names"
    /\ calc.done
    /\ Len(calc.zones) = 3
    /\ calc.count = MaxCount
    /\ \E k \in 1..3 : calc.zones[k].offset = 8
    /\ \A i \in 1..Len(calc.out) : Len(calc.out[i]) <= MaxNameLength
    /\ \E i \in 1..Len(calc.out) : SubSeq(calc.out[i], 1, 6) # SubnetWord

\* The rule of the flag is applied by the step: the flag turns TRUE.
Applied(rule) ==
    ~calc.shortened[rule] /\ calc'.shortened[rule]

\* C15 (steps): a step of the shortening loop applies a rule only while the
\* name is longer than 37 characters, then the first rule in the order
\* resource type, subnet type, environment that has not been applied; a rule
\* that has been applied stays applied, so none is applied twice; the
\* resource-type rule drops 'subnet-', the subnet-type rule turns public into
\* pub or private into priv, the environment rule turns prod into prd or
\* staging into stg (Python's replace, every occurrence), and a step that
\* applies no rule leaves the name as it is.
C15_ShortenStep ==
    (calc.fn = "shorten" /\ calc' # calc) =>
        /\ \A rule \in DOMAIN calc.shortened :
               calc.shortened[rule] => calc'.shortened[rule]
        /\ Len(calc.subnet_name) <= MaxNameLength =>
               /\ calc'.subnet_name = calc.subnet_name
               /\ calc'.shortened = calc.shortened
               /\ calc'.done
        /\ Len(calc.subnet_name) > MaxNameLength =>
               /\ ~calc.shortened.resource_type => Applied("resource_type")
               /\ (calc.shortened.resource_type /\ ~calc.shortened.subnet_type)
                      => Applied("subnet_type")
               /\ (calc.shortened.resource_type /\ calc.shortened.subnet_type
                      /\ ~calc.shortened.environment) => Applied("environment")
        /\ Applied("resource_type") =>
               /\ ~Applied("subnet_type") /\ ~Applied("environment")
               /\ calc'.subnet_name = replace(calc.subnet_name, SubnetWord \o <<"-">>, <<>>)
        /\ Applied("subnet_type") =>
               /\ calc.shortened.resource_type
               /\ ~Applied("environment")
               /\ calc'.subnet_name =
                      IF calc.public
                      THEN replace(calc.subnet_name, PublicWord, <<"p", "u", "b">>)
                      ELSE replace(calc.subnet_name, PrivateWord, <<"p", "r", "i", "v">>)
        /\ Applied("environment") =>
               /\ calc.shortened.resource_type
               /\ calc.shortened.subnet_type
               /\ calc'.subnet_name =
                      IF lower(calc.environment) = ProdWord
                      THEN replace(calc.subnet_name, ProdWord, <<"p", "r", "d">>)
                      ELSE IF lower(calc.environment) = StagingWord
                      THEN replace(calc.subnet_name, StagingWord, <<"s", "t", "g">>)
                      ELSE calc.subnet_name
        /\ (\A rule \in DOMAIN calc.shortened : ~Applied(rule)) =>
               calc'.subnet_name = calc.subnet_name

\* C15 (states): the rules that have been applied are an initial part of
\* the order, and the loop is left only with a name of at most 37
\* characters or with every rule applied.
C15_ShortenState ==
    calc.fn = "shorten" =>
        /\ calc.shortened.subnet_type => calc.shortened.resource_type
        /\ calc.shortened.environment => calc.shortened.subnet_type
        /\ calc.done =>
               \/ Len(calc.subnet_name) <= MaxNameLength
               \/ \A rule \in DOMAIN calc.shortened : calc.shortened[rule]

\* C15: while a subnet name is longer than 37 characters the shortening
\* rules are applied in the order resource type, subnet type, environment,
\* each at most once, and none once the name has at most 37 characters.
C15_ShorteningInOrder ==
    []C15_ShortenState /\ [][C15_ShortenStep]_vars

\* The loop has stopped after the first two rules, the name having come down
\* to 37 characters or fewer before the environment rule.
C15_Witness ==
    /\ calc.fn = "shorten"
    /\ calc.done
    /\ calc.shortened.resource_type
    /\ calc.shortened.subnet_type
    /\ ~calc.shortened.environment
    /\ Len(calc.subnet_name) <= MaxNameLength

\* The netmask before the policies are applied.
ChildPrefix ==
    minimum_netmask(calc.cidr_block.netmask, calc.num_subnets, calc.nzones,
                    calc.count)

\* C16: with byte_aligned set, a prefix p < 24 becomes p + 8 - (p mod 8), a
\* multiple of 8 above p and at most 24, and a prefix p >= 24 stays; for
\* the parent 10.0.0.0/16 with one zone, count 1 and no subnets the prefix
\* is 24 and the block 10.0.0.0/24.
C16_ByteAligned ==
    (calc.fn = "subnet_netmask" /\ calc.done /\ calc.byte_aligned /\ ~calc.balanced) =>
        LET p == ChildPrefix
            q == calc.out.subnet_netmask
        IN  /\ p < 24 => /\ q = p + 8 - (p % 8)
                         /\ q % 8 = 0
                         /\ q > p
                         /\ q <= 24
            /\ p >= 24 => q = p
            /\ (/\ calc.cidr_block = Cidr(10, 0, 0, 0, 16)
                /\ calc.nzones = 1
                /\ calc.count = 1
                /\ calc.num_subnets = 0)
                   => /\ q = 24
                      /\ calc.out.cidr_block = Cidr(10, 0, 0, 0, 24)

\* The scenario: 10.0.0.0/16, one zone, count 1, byte_aligned, no subnets.
C16_Witness ==
    /\ calc.fn = "subnet_netmask"
    /\ calc.done
    /\ calc.byte_aligned
    /\ ~calc.balanced
    /\ calc.cidr_block = Cidr(10, 0, 0, 0, 16)
    /\ calc.nzones = 1
    /\ calc.count = 1
    /\ calc.num_subnets = 0
    /\ calc.out.cidr_block = Cidr(10, 0, 0, 0, 24)

\* C17: with balanced set, a prefix p < 28 becomes p + (28 - p) div 2 and a
\* prefix p >= 28 stays; with byte_aligned set as well, the byte alignment
\* is applied to the widened value.
C17_BalancedThenAligned ==
    (calc.fn = "subnet_netmask" /\ calc.done /\ calc.balanced) =>
        LET p == ChildPrefix
            w == IF p < 28 THEN p + ((28 - p) \div 2) ELSE p
            q == calc.out.subnet_netmask
        IN  IF calc.byte_aligned
            THEN q = (IF w < 24 THEN w + 8 - (w % 8) ELSE w)
            ELSE q = w

\* Both policies on a prefix where the order shows: 16 widened is 22 and
\* aligned 24, whereas 16 aligned is 24 and widened 26.
C17_Witness ==
    /\ calc.fn = "subnet_netmask"
    /\ calc.done
    /\ calc.balanced
    /\ calc.byte_aligned
    /\ ChildPrefix = 16
    /\ calc.out.subnet_netmask = 24

\* C18: for a parent block with all host bits zero and a prefix p at or
\* above the parent's, the blocks network_ip | (index << (32 - p)) of two
\* distinct indices below 2^(p - parent prefix) do not overlap.
C18_DistinctIndicesDisjoint ==
    (calc.fn = "subnet_cidr_block" /\ calc.done) =>
        LET x == calc.num_subnets + calc.i
            y == calc.num_subnets + calc.j
            room == calc.subnet_netmask - calc.cidr_block.netmask
        IN  (/\ room >= 0
             /\ x # y
             /\ \A b \in BitsOf(x) \cup BitsOf(y) : b < room)
                => /\ ~Overlap(calc.out[1], calc.out[2])
                   /\ calc.out[1].netmask = calc.subnet_netmask
                   /\ calc.out[2].netmask = calc.subnet_netmask

\* Two distinct indices that fill the room of a /28 in a /24 parent.
C18_Witness ==
    /\ calc.fn = "subnet_cidr_block"
    /\ calc.done
    /\ calc.cidr_block = Cidr(10, 0, 7, 0, 24)
    /\ calc.subnet_netmask = 28
    /\ calc.num_subnets + calc.i = 15
    /\ calc.num_subnets + calc.j = 8
    /\ calc.out = <<Cidr(10, 0, 7, 240, 28), Cidr(10, 0, 7, 128, 28)>>

\* The step in which the provider answers the attach call with false: the
\* call is issued, the gateway stays unattached and the provider has raised
\* no error.
AttachAnsweredFalse ==
    /\ pc = "ig_attach"
    /\ ~cloud.gateways[internet_gateway].attach_requested
    /\ cloud'.gateways[internet_gateway].attach_requested
    /\ ~cloud'.gateways[internet_gateway].attached
    /\ fault' = fault

\* C19: when the provider answers the attach call with false,
\* attach_internet_gateway logs an error, raises nothing and returns the
\* gateway, and the run goes on: create_vpc returns, and create_route_table
\* goes on to create the route.
C19_AttachFalseStep ==
    AttachAnsweredFalse =>
        /\ "attach_internet_gateway" \in log'
        /\ raised' = raised
        /\ pc' = (IF igw_caller = "create_vpc" THEN "idle" ELSE "rt_create_route")
        /\ internet_gateway' = internet_gateway
        /\ Len(cloud'.gateways) = Len(cloud.gateways)

C19_AttachFailureLogged ==
    [][C19_AttachFalseStep]_vars

\* After a false answer the run has gone on to create a subnet in a VPC
\* whose gateway is not attached.
C19_Witness ==
    /\ "attach_internet_gateway" \in log
    /\ raised = None
    /\ \E g \in 1..Len(cloud.gateways) :
           cloud.gateways[g].attach_requested /\ ~cloud.gateways[g].attached
    /\ cloud.subnets # <<>>

\* Subnet k carries the tags of create_subnet.
SubnetTagged(k) ==
    \E t \in cloud.tags : t.id = <<"subnet", k>>

\* The association of subnet k to a route table has been made.
Associated(k) ==
    cloud.subnets[k].route_table # 0

\* The association call for subnet k has been issued.
AssociationIssued(k) ==
    cloud.subnets[k].associate_requested

\* create_route_table has returned route table r: it exists and carries the
\* tags create_route_table gives it.
RouteTableReady(r) ==
    /\ r \in 1..Len(cloud.route_tables)
    /\ \E t \in cloud.tags : t.id = <<"rtb", r>> /\ t.type # "main"

\* C20 (states): the association call of a tagged subnet has been issued,
\* an associated subnet is associated by that call and to a route table
\* create_route_table has returned, every subnet but the newest is tagged,
\* and when the creation of a subnet is about to be issued every subnet
\* there is has been tagged.
C20_StepsInOrderState ==
    /\ \A k \in 1..Len(cloud.subnets) :
           /\ SubnetTagged(k) => AssociationIssued(k)
           /\ Associated(k) =>
                  /\ AssociationIssued(k)
                  /\ RouteTableReady(cloud.subnets[k].route_table)
           /\ k < Len(cloud.subnets) => SubnetTagged(k)
    /\ pc = "sn_create" =>
           /\ \A k \in 1..Len(cloud.subnets) : SubnetTagged(k)
           /\ RouteTableReady(route_table.id)

\* C20 (steps): a subnet appears only by the creation call; the
\* association call is issued for it only by the same create_subnet, as the
\* newest subnet, before it is tagged and to the route table
\* create_route_table has returned; it is tagged only by the tagging loop,
\* after the association call; and create_subnet leaves its tagging loop,
\* other than by raising, only with the subnet tagged.
C20_StepsInOrderStep ==
    /\ Len(cloud'.subnets) # Len(cloud.subnets) =>
           /\ pc = "sn_create"
           /\ Len(cloud'.subnets) = Len(cloud.subnets) + 1
           /\ subnet'.id = Len(cloud'.subnets)
           /\ ~AssociationIssued(Len(cloud.subnets))'
           /\ ~Associated(Len(cloud.subnets))'
           /\ ~SubnetTagged(Len(cloud.subnets))'
    /\ \A k \in 1..Len(cloud.subnets) :
           /\ (AssociationIssued(k)' /\ ~AssociationIssued(k)) =>
                  /\ pc = "sn_associate"
                  /\ subnet.id = k
                  /\ k = Len(cloud.subnets)
                  /\ ~SubnetTagged(k)
                  /\ RouteTableReady(route_table.id)
                  /\ cloud'.subnets[k].route_table \in {0, route_table.id}
           /\ (Associated(k)' /\ ~Associated(k)) =>
                  (AssociationIssued(k)' /\ ~AssociationIssued(k))
           /\ (SubnetTagged(k)' /\ ~SubnetTagged(k)) =>
                  /\ pc = "sn_tag"
                  /\ subnet.id = k
                  /\ AssociationIssued(k)
    /\ (pc = "sn_tag" /\ pc' \notin {"sn_tag", "raised"}) =>
           /\ pc' = "cs_loop"
           /\ SubnetTagged(subnet.id)

\* C20: for every subnet the calls are made in the order create, associate,
\* tag; the association is made only for a created subnet and a created
\* route table; the next subnet is not created before the tagging of the
\* previous one, retries included, is over.
C20_StepsInOrder ==
    []C20_StepsInOrderState /\ [][C20_StepsInOrderStep]_vars

\* The second subnet of an invocation in its tagging loop after a retry,
\* associated and not yet tagged, the first one complete.
C20_Witness ==
    /\ pc = "sn_tag"
    /\ subnet.id = 2
    /\ loop.transients = 1
    /\ AssociationIssued(2)
    /\ Associated(2)
    /\ ~SubnetTagged(2)
    /\ SubnetTagged(1)
    /\ Associated(1)

\* What a plan gives zone z: the blocks and names of its subnets.
Share(plan, z) ==
    {[cidr_block |-> plan[i].cidr_block, name |-> plan[i].name] :
        i \in {j \in 1..Len(plan) : plan[j].zone = z}}

\* C21: for a list of zones of distinct names and any other order of the
\* same zones, with the same subnets, count and flags, every zone is given
\* the same blocks and the same names.
C21_PlanIgnoresZoneOrder ==
    (calc.fn = "plan" /\ calc.done) =>
        /\ Len(calc.out[1]) = Len(calc.zones) * calc.count
        /\ Len(calc.out[2]) = Len(calc.zones) * calc.count
        /\ \A k \in 1..Len(calc.zones) :
               /\ Share(calc.out[1], calc.zones[k].name)
                      = Share(calc.out[2], calc.zones[k].name)
               /\ Cardinality(Share(calc.out[1], calc.zones[k].name)) = calc.count

\* Three zones supplied in two different orders, several subnets in each.
C21_Witness ==
    /\ calc.fn = "plan"
    /\ calc.done
    /\ Len(calc.zones) = 3
    /\ calc.permuted[1].name = calc.zones[3].name
    /\ calc.permuted[2].name = calc.zones[1].name
    /\ calc.zones[1].offset # calc.zones[3].offset
    /\ calc.count = MaxCount
    /\ calc.out[1] = calc.out[2]

\* The number of shortening rules applied so far.
RulesApplied ==
    Cardinality({rule \in DOMAIN calc.shortened : calc.shortened[rule]})

\* C22 (steps): every step of the shortening loop either applies one more
\* rule or leaves the loop with the name as it is.
C22_ShortenProgress ==
    (calc.fn = "shorten" /\ calc' # calc) =>
        \/ /\ RulesApplied' = RulesApplied + 1
           /\ ~calc'.done
        \/ /\ calc'.shortened = calc.shortened
           /\ calc'.subnet_name = calc.subnet_name
           /\ calc'.done

\* The name with all three rules applied.
FullyShortened(name, environment, public) ==
    LET n1 == replace(name, SubnetWord \o <<"-">>, <<>>)
        n2 == IF public THEN replace(n1, PublicWord, <<"p", "u", "b">>)
              ELSE replace(n1, PrivateWord, <<"p", "r", "i", "v">>)
    IN  IF lower(environment) = ProdWord THEN replace(n2, ProdWord, <<"p", "r", "d">>)
        ELSE IF lower(environment) = StagingWord
        THEN replace(n2, StagingWord, <<"s", "t", "g">>)
        ELSE n2

\* C22 (states): at most three rules are applied; a loop left with a name
\* longer than 37 characters has applied all three and has raised nothing,
\* and the name it leaves for create_subnet is the name it was given with
\* the three rules applied.
C22_ShortenGivesUp ==
    calc.fn = "shorten" =>
        /\ RulesApplied <= 3
        /\ (calc.done /\ Len(calc.subnet_name) > MaxNameLength) =>
               /\ RulesApplied = 3
               /\ raised = None
               /\ pc # "raised"
               /\ \E c \in ShortenCalls :
                      /\ c.environment = calc.environment
                      /\ c.public = calc.public
                      /\ calc.subnet_name =
                             FullyShortened(c.subnet_name, c.environment, c.public)

\* The name create_subnets joins for the subnet at place i of its loop.
JoinedName(i) ==
    LET order == sorted(Repeat(cs.zones, args.count))
    IN  JoinName(config.core.PROJECT_NAME, config.core.environment,
                 ZoneText(order[i + 1].name), args.public,
                 order[i + 1].offset, args.count, i)

\* That name with the three rules applied.
GivenUpName(i) ==
    FullyShortened(JoinedName(i), config.core.environment, args.public)

\* C22 (states, within create_subnets): a loop left with a name longer than
\* 37 characters has applied the three rules and has raised nothing;
\* create_subnet is called with the name the loop left; and a subnet of the
\* invocation whose name stays longer than 37 characters carries, once it
\* is tagged, that name; the subnets create_subnets has in its result are
\* tagged.
C22_CreatedUnderName ==
    Planned =>
        /\ (pc = "cs_block" /\ Len(cs.subnet_name) > MaxNameLength) =>
               /\ \A rule \in DOMAIN cs.shortened : cs.shortened[rule]
               /\ cs.subnet_name = GivenUpName(cs.i)
               /\ raised = None
        /\ pc \in {"sn_create", "sn_associate", "sn_tag"} =>
               /\ subnet.subnet_name = cs.subnet_name
               /\ Len(GivenUpName(cs.i)) > MaxNameLength =>
                      subnet.subnet_name = GivenUpName(cs.i)
        /\ \A k \in (cs.num_subnets + 1)..Len(cloud.subnets) :
               (SubnetTagged(k) /\ Len(GivenUpName(k - cs.num_subnets - 1)) > MaxNameLength)
                   => [id |-> <<"subnet", k>>,
                       Name |-> GivenUpName(k - cs.num_subnets - 1)] \in cloud.tags
        /\ \A j \in 1..Len(cs.subnets) : SubnetTagged(cs.subnets[j])

\* C22 (steps, within create_subnets): a pass of the loop applies one more
\* rule or leaves the loop with the name as it is; after a loop left with
\* a name longer than 37 characters the next step is the call of
\* create_subnet with that name, and nothing is raised; the name a subnet
\* is tagged with is the one create_subnet was called with, and no tag is
\* taken back.
C22_HandedOver ==
    /\ (pc = "cs_shorten" /\ pc' = "cs_shorten") =>
           /\ Cardinality({rule \in DOMAIN cs.shortened : cs'.shortened[rule]})
                 = Cardinality({rule \in DOMAIN cs.shortened : cs.shortened[rule]}) + 1
           /\ raised' = None
    /\ (pc = "cs_shorten" /\ pc' # "cs_shorten") =>
           /\ pc' = "cs_block"
           /\ cs' = cs
           /\ raised' = None
    /\ (pc = "cs_block" /\ Len(cs.subnet_name) > MaxNameLength
          /\ cs.subnet_netmask <= 32) =>
           /\ pc' = "sn_create"
           /\ subnet'.subnet_name = cs.subnet_name
           /\ raised' = None
    /\ cloud.tags \subseteq cloud'.tags
    /\ \A t \in cloud'.tags \ cloud.tags :
           t.id[1] = "subnet" =>
               /\ pc = "sn_tag"
               /\ t.id = <<"subnet", subnet.id>>
               /\ "Name" \in DOMAIN t => t.Name = subnet.subnet_name

\* C22: the shortening loop ends for every name after at most three rule
\* applications; a name still longer than 37 characters is used as it is
\* and nothing is raised; and the subnet is created and tagged under that
\* name.
C22_ShorteningTerminates ==
    /\ []C22_ShortenGivesUp
    /\ [][C22_ShortenProgress]_vars
    /\ (calc.fn = "shorten") ~> (calc.fn = "shorten" /\ calc.done)
    /\ []C22_CreatedUnderName
    /\ [][C22_HandedOver]_vars
    /\ (pc = "cs_shorten") ~> (pc = "cs_block")

\* create_subnets has returned a subnet that carries a name longer than 37
\* characters, the name its loop gave up on with the three rules applied.
C22_Witness ==
    /\ pc = "idle"
    /\ raised = None
    /\ Len(cs.subnets) = Len(cs.zones) * args.count
    /\ \E j \in 1..Len(cs.subnets) :
           /\ SubnetTagged(cs.subnets[j])
           /\ Len(GivenUpName(j - 1)) > MaxNameLength
           /\ [id |-> <<"subnet", cs.subnets[j]>>,
               Name |-> GivenUpName(j - 1)] \in cloud.tags

\* C23: the shortening loop returns a name of at most 37 characters
\* unchanged, the result of an earlier shortening that fits included.
C23_ShortNameUnchanged ==
    (calc.fn = "shorten_twice" /\ calc.done) =>
        /\ Len(calc.subnet_name) <= MaxNameLength => calc.out[1] = calc.subnet_name
        /\ Len(calc.out[1]) <= MaxNameLength => calc.out[2] = calc.out[1]

\* A name that was shortened to fit, still holding a word a rule would
\* replace, and returned unchanged by the second run.
C23_Witness ==
    /\ calc.fn = "shorten_twice"
    /\ calc.done
    /\ Len(calc.subnet_name) > MaxNameLength
    /\ Len(calc.out[1]) <= MaxNameLength
    /\ replace(calc.out[1], PublicWord, <<"p", "u", "b">>) # calc.out[1]
    /\ calc.out[2] = calc.out[1]

\* The argument is the text of a block a.b.c.d/n.
BlockText ==
    /\ calc.form = "block"
    /\ Len(calc.octets) = 4

\* The argument is malformed: not four octets in 0..255 between dots, the
\* '/' or the prefix missing, the prefix not a number or outside 0..32, or
\* text after the prefix.
Malformed ==
    \/ ~BlockText
    \/ \E k \in 1..Len(calc.octets) : calc.octets[k] \notin 0..255
    \/ calc.prefix \notin 0..32

\* C24: validate_cidr_block returns False for every malformed argument; it
\* neither returns True for one nor lets an exception leave it.
C24_MalformedReturnsFalse ==
    (calc.fn = "validate_cidr_block" /\ calc.done /\ Malformed)
        => calc.out = Returns("False")

\* The address lies in 10.0.0.0/8, 172.16.0.0/12 or 192.168.0.0/16.
Private ==
    \/ calc.octets[1] = 10
    \/ calc.octets[1] = 172 /\ calc.octets[2] \in 16..31
    \/ calc.octets[1] = 192 /\ calc.octets[2] = 168

\* C27: validate_cidr_block returns True exactly for the blocks a.b.c.d/n
\* with octets in 0..255, an address in one of the private ranges and a
\* prefix from 16 to 28.
C27_TrueExactlyForPrivateBlocks ==
    (calc.fn = "validate_cidr_block" /\ calc.done) =>
        (calc.out = Returns("True")
            <=> /\ BlockText
                /\ \A k \in 1..4 : calc.octets[k] \in 0..255
                /\ Private
                /\ calc.prefix \in 16..28)

\* The subnets created in the current invocation of create_subnets.
OwnSubnets ==
    (cs.num_subnets + 1)..Len(cloud.subnets)

\* C25 (states): once the invocation has read the subnets there are, the
\* subnets it has created are there only after its route table; each of
\* them is associated to that route table or, while create_subnet has not
\* reached the association, to none; the subnets create_subnet has returned
\* are associated to it; and the route table has the route to the gateway
\* iff the invocation is public.
C25_OneRouteTableState ==
    Planned =>
        /\ OwnSubnets # {} =>
               /\ route_table.id \in 1..Len(cloud.route_tables)
               /\ route_table.igw_route = args.public
               /\ cloud.route_tables[route_table.id].igw_route = args.public
               /\ ~cloud.route_tables[route_table.id].main
        /\ \A k \in OwnSubnets :
               cloud.subnets[k].route_table \in {0, route_table.id}
        /\ \A j \in 1..Len(cs.subnets) :
               /\ cs.subnets[j] \in OwnSubnets
               /\ cloud.subnets[cs.subnets[j]].route_table = route_table.id

\* C25 (steps): within create_subnets a route table is created only by
\* create_route_table, one, while the invocation has no route table and has
\* created no subnet; the route table of the invocation stays the same
\* until the next invocation begins; the association of a subnet, once made,
\* is not changed.
C25_OneRouteTableStep ==
    /\ (invocations > 0 /\ Len(cloud'.route_tables) # Len(cloud.route_tables)) =>
           /\ pc = "rt_create"
           /\ route_table = NoRouteTable
           /\ Len(cloud'.route_tables) = Len(cloud.route_tables) + 1
           /\ route_table'.id = Len(cloud'.route_tables)
           /\ OwnSubnets = {}
    /\ (route_table.id # 0 /\ route_table'.id # route_table.id) =>
           /\ pc = "idle"
           /\ pc' = "cs_query"
    /\ \A k \in 1..Len(cloud.subnets) :
           cloud.subnets[k].route_table # 0 =>
               cloud'.subnets[k].route_table = cloud.subnets[k].route_table

\* C25: an invocation of create_subnets creates one route table, before any
\* of its subnets, and every subnet it creates is associated to that route
\* table, which is routed to the internet iff the invocation is public.
C25_OneRouteTablePerInvocation ==
    []C25_OneRouteTableState /\ [][C25_OneRouteTableStep]_vars

\* C26: whatever create_vpc with a gateway requested and the public
\* invocations of create_subnets do, the network has at most one internet
\* gateway, also after an attach call answered false or a listing that does
\* not show the gateway attached.
C26_AtMostOneGateway ==
    Len(cloud.gateways) <= 1

\* The call of loop l has had its effect: the tags are on the resource (the
\* listing of ec_get_enis sets none).
Succeeded(l) ==
    l = "ec_get_enis" \/ [id |-> Resource(l), type |-> TagType(l)] \in cloud.tags

\* C28 (steps): a retry loop is left, other than by raising, only after its
\* call has returned a true value, with the resource tagged; a false answer
\* is followed by another run of the body, nothing being raised; and while
\* the loop has no true answer, its steps change nothing but the counters
\* of the loop, the tags and the error last raised by the provider.
C28_LoopStep ==
    \A l \in Loops :
        /\ (pc = l /\ pc' # l /\ pc' # "raised") =>
               /\ loop.resp = True
               /\ Succeeded(l)
        /\ (pc = l /\ loop.resp = False) =>
               /\ pc' = l
               /\ raised' = None
               /\ loop'.resp = None
               /\ cloud' = cloud
        /\ (pc = l /\ loop.resp # True /\ pc' = l) =>
               /\ cloud' = [cloud EXCEPT !.tags = cloud'.tags]
               /\ UNCHANGED <<config, args, new_vpc, todo, igw_caller,
                              internet_gateway, route_table, cs, subnet, log,
                              invocations>>

\* C28 (states): a loop whose last answer is true has tagged its resource.
C28_LoopState ==
    \A l \in Loops : Tagged(l) => Succeeded(l)

\* C28: a tagging loop ends normally only after the tag call has returned a
\* true value; a call that returns false is made again, like one that
\* raised the not-yet-visible error, so that nothing after the loop is run
\* for a resource that has not been tagged.
C28_LoopEndsOnlyWhenTagged ==
    []C28_LoopState /\ [][C28_LoopStep]_vars

\* The loop of create_subnet ended after a false answer and a second call.
C28_Witness ==
    /\ Tagged("sn_tag")
    /\ loop.falses = 1
    /\ loop.transients = 0
    /\ loop.attempts = 2
    /\ Succeeded("sn_tag")

\* The child index a block stands for: the bits the block adds to the
\* address of the VPC, shifted back.
IndexOf(block) ==
    ValueOf(ShiftRight(BitXor(get_cidr_block_components(block).network_ip,
                              get_cidr_block_components(new_vpc.cidr_block).network_ip),
                       32 - block.netmask))

\* The zone of place j (from 1) in zone-name order: the zone of cs.zones
\* with (j - 1) div count zones of smaller name.
ZoneAt(j) ==
    LET z == CHOOSE k \in 1..Len(cs.zones) :
                 Cardinality({h \in 1..Len(cs.zones) :
                                 Rank(cs.zones[h].name) < Rank(cs.zones[k].name)})
                     = (j - 1) \div args.count
    IN  cs.zones[z].name

\* C29 (states): the blocks handed out so far in the invocation stand for
\* the indices num_subnets, num_subnets+1, ... in the order they were
\* handed out, none beyond num_subnets + len(zones)*count - 1; the subnet
\* create_subnet is working on is in the zone its place has in zone-name
\* order; and an invocation that has returned has handed out all of them.
C29_IndicesState ==
    Planned =>
        /\ Len(cs.assigned) <= Len(cs.zones) * args.count
        /\ \A j \in 1..Len(cs.assigned) :
               IndexOf(cs.assigned[j]) = cs.num_subnets + j - 1
        /\ pc \in {"sn_create", "sn_associate", "sn_tag", "sn_quota"} =>
               /\ Len(cs.assigned) = cs.i + 1
               /\ subnet.cidr_block = cs.assigned[cs.i + 1]
               /\ subnet.zone = ZoneAt(cs.i + 1)
        /\ pc = "idle" => Len(cs.assigned) = Len(cs.zones) * args.count

\* C29 (steps): the offsets of the zones and the number of subnets are
\* read from the provider in one place, before the invocation has created
\* anything, and what was read is kept as it is while the subnets are
\* created, whatever the provider holds by then.
C29_ReadOnceStep ==
    /\ (~Planned /\ Planned') =>
           /\ pc = "cs_query"
           /\ cloud' = cloud
           /\ route_table = NoRouteTable
           /\ cs'.num_subnets = Len(cloud.subnets)
           /\ cs'.assigned = <<>>
           /\ \A k \in 1..Len(cs'.zones) :
                  cs'.zones[k].offset = Offset(cs'.zones[k].name, args.public)
    /\ (Planned /\ Planned') =>
           /\ cs'.zones = cs.zones
           /\ cs'.num_subnets = cs.num_subnets
           /\ cs'.subnet_netmask = cs.subnet_netmask

\* C29: the offsets of the zones and the number of existing subnets are
\* read once, before the first subnet of the invocation is created, and are
\* not read again or changed while the subnets are created: the child
\* indices of the invocation are num_subnets .. num_subnets +
\* len(zones)*count - 1, handed out in zone-name order.
C29_SnapshotIndices ==
    []C29_IndicesState /\ [][C29_ReadOnceStep]_vars

\* A second invocation has returned: its indices start at the number of
\* subnets it found, and the offset it read for a zone is no longer what
\* the provider holds.
C29_Witness ==
    /\ pc = "idle"
    /\ Planned
    /\ cs.num_subnets > 0
    /\ Len(cs.assigned) = 2
    /\ Len(cs.subnets) = 2
    /\ IndexOf(cs.assigned[2]) = cs.num_subnets + 1
    /\ \E k \in 1..Len(cs.zones) :
           cs.zones[k].offset # Offset(cs.zones[k].name, args.public)

====
